---- MODULE Spec2Model ----
(***************************************************************************)
(* A model of entrophier (src/src/entrophier): the configuration globals   *)
(* of config.py, load_config, and the classification and redaction         *)
(* functions of core.py.                                                   *)
(*                                                                         *)
(* Representation.                                                         *)
(*  - A Python str is a sequence of one-character strings.                 *)
(*  - An optional argument is a sequence of length <= 1: <<>> is None.     *)
(*  - A float (entropy, threshold, bonus) is an integer number of          *)
(*    micro-bits: 2.5 is 2500000.  log2 is tabulated, rounded to the       *)
(*    micro-bit; it is exact on powers of two.                             *)
(*  - A configured regular expression is one of the fixed-width patterns   *)
(*    [c1][c2]...[cn], n >= 1, with an optional closing $, each [ci] a     *)
(*    character class; a substitution template is a literal string.        *)
(***************************************************************************)
EXTENDS Integers, Sequences, FiniteSets, TLC

VARIABLES
    COMMON_WORDS,
    COMMON_PREFIXES,
    COMMON_SUFFIXES,
    ENTROPY_SETTINGS,
    REDACTION_PATTERNS,
    AWS_SELECTIVE_PATTERNS,
    EXACT_MATCH_PATTERNS,
    HUMAN_READABLE_DATETIME_PATTERNS,
    load_status,
    pc,
    call,
    result,
    frames,
    stdout

config_vars == <<COMMON_WORDS, COMMON_PREFIXES, COMMON_SUFFIXES, ENTROPY_SETTINGS,
                 REDACTION_PATTERNS, AWS_SELECTIVE_PATTERNS, EXACT_MATCH_PATTERNS,
                 HUMAN_READABLE_DATETIME_PATTERNS>>

vars == <<COMMON_WORDS, COMMON_PREFIXES, COMMON_SUFFIXES, ENTROPY_SETTINGS,
          REDACTION_PATTERNS, AWS_SELECTIVE_PATTERNS, EXACT_MATCH_PATTERNS,
          HUMAN_READABLE_DATETIME_PATTERNS, load_status, pc, call, result, frames, stdout>>

---------------------------------------------------------------------------
(* Characters and the str methods the code uses.                           *)

Digits == {"0", "1", "2", "3", "4", "5", "6", "7", "8", "9"}

LowerSeq ==
    <<"a", "b", "c", "d", "e", "f", "g", "h", "i", "j", "k", "l", "m",
      "n", "o", "p", "q", "r", "s", "t", "u", "v", "w", "x", "y", "z">>

UpperSeq ==
    <<"A", "B", "C", "D", "E", "F", "G", "H", "I", "J", "K", "L", "M",
      "N", "O", "P", "Q", "R", "S", "T", "U", "V", "W", "X", "Y", "Z">>

LowerLetters == {LowerSeq[i] : i \in DOMAIN LowerSeq}

UpperLetters == {UpperSeq[i] : i \in DOMAIN UpperSeq}

Letters == LowerLetters \cup UpperLetters

Alnum == Letters \cup Digits

HexChars ==
    Digits \cup {"a", "b", "c", "d", "e", "f", "A", "B", "C", "D", "E", "F"}

Base64Chars == Alnum \cup {"+", "/"}

NL == "\n"

STAR == "*"

ToLower(c) ==
    IF c \in UpperLetters
    THEN LowerSeq[CHOOSE i \in DOMAIN UpperSeq : UpperSeq[i] = c]
    ELSE c

\* LATIN CAPITAL LETTER I WITH DOT ABOVE, the one character whose lower case
\* is two characters: "i" and COMBINING DOT ABOVE.
CAPITAL_I_WITH_DOT == "U+0130"

COMBINING_DOT == "U+0307"

RECURSIVE LowerChars(_)
LowerChars(s) ==
    IF Len(s) = 0 THEN <<>>
    ELSE (IF Head(s) = CAPITAL_I_WITH_DOT THEN <<"i", COMBINING_DOT>>
          ELSE <<ToLower(Head(s))>>) \o LowerChars(Tail(s))

\* str.lower()
lower(s) ==
    IF \A i \in 1..Len(s) : s[i] # CAPITAL_I_WITH_DOT
    THEN [i \in 1..Len(s) |-> ToLower(s[i])]
    ELSE LowerChars(s)

\* str.isdigit()
isdigit(s) == Len(s) > 0 /\ \A i \in 1..Len(s) : s[i] \in Digits

any_digit(s) == \E i \in 1..Len(s) : s[i] \in Digits

any_alpha(s) == \E i \in 1..Len(s) : s[i] \in Letters

any_upper(s) == \E i \in 1..Len(s) : s[i] \in UpperLetters

any_lower(s) == \E i \in 1..Len(s) : s[i] \in LowerLetters

\* An index of a slice of a sequence of length n: a negative index counts
\* from the end, and the outcome is clamped to 0..n.
SliceIndex(a, n) ==
    IF a < 0 THEN (IF a + n < 0 THEN 0 ELSE a + n)
    ELSE IF a > n THEN n ELSE a

\* s[a:b] as Python cuts it (0-based, b exclusive).
Slice(s, a, b) ==
    LET lo == SliceIndex(a, Len(s))
        hi == SliceIndex(b, Len(s))
    IN  IF hi <= lo THEN <<>> ELSE SubSeq(s, lo + 1, hi)

startswith(s, p) == Len(p) <= Len(s) /\ SubSeq(s, 1, Len(p)) = p

endswith(s, p) == Len(p) <= Len(s) /\ SubSeq(s, Len(s) - Len(p) + 1, Len(s)) = p

\* "*" * n
Stars(n) == [i \in 1..n |-> STAR]

---------------------------------------------------------------------------
(* int(text) of a string of decimal digits, kept as its digits without     *)
(* leading zeros so that no value is cut to a machine word.                *)

DigitSeq == <<"0", "1", "2", "3", "4", "5", "6", "7", "8", "9">>

DigitVal(c) == (CHOOSE i \in DOMAIN DigitSeq : DigitSeq[i] = c) - 1

RECURSIVE StripZeros(_)
StripZeros(s) ==
    IF Len(s) > 0 /\ s[1] = "0" THEN StripZeros(Tail(s)) ELSE s

\* int(text), for a text of digits, as the digits of its value.
int(text) == StripZeros(text)

RECURSIVE LexLeq(_, _)
LexLeq(a, b) ==
    IF Len(a) = 0 THEN TRUE
    ELSE IF DigitVal(a[1]) # DigitVal(b[1]) THEN DigitVal(a[1]) < DigitVal(b[1])
    ELSE LexLeq(Tail(a), Tail(b))

\* a <= b, for two values as digits without leading zeros.
NumLeq(a, b) == Len(a) < Len(b) \/ (Len(a) = Len(b) /\ LexLeq(a, b))

InRange(lo, v, hi) == NumLeq(lo, v) /\ NumLeq(v, hi)

---------------------------------------------------------------------------
(* re.match / re.finditer / re.sub on the modelled patterns.               *)

\* A pattern matches at 0-based offset pos of text; ic is re.IGNORECASE.
\* A closing $ matches at the end and before one final newline.
MatchAt(p, text, pos, ic) ==
    LET n == Len(p.cls) IN
    /\ pos + n <= Len(text)
    /\ \A i \in 1..n :
        IF ic
        THEN ToLower(text[pos + i]) \in {ToLower(c) : c \in p.cls[i]}
        ELSE text[pos + i] \in p.cls[i]
    /\ p.end =>
        \/ pos + n = Len(text)
        \/ (pos + n = Len(text) - 1 /\ text[Len(text)] = NL)

\* re.match(pattern, text): a match at the start of text.
re_match(p, text, ic) == MatchAt(p, text, 0, ic)

\* re.finditer(pattern, text): the spans <<start, end>> of the leftmost
\* non-overlapping matches, from offset pos on.
RECURSIVE finditer(_, _, _, _)
finditer(p, text, pos, ic) ==
    IF pos > Len(text) THEN <<>>
    ELSE IF MatchAt(p, text, pos, ic)
    THEN <<<<pos, pos + Len(p.cls)>>>> \o finditer(p, text, pos + Len(p.cls), ic)
    ELSE finditer(p, text, pos + 1, ic)

\* re.sub(pattern, replacement, text): every match replaced by the template.
RECURSIVE re_sub(_, _, _, _, _)
re_sub(p, repl, text, pos, ic) ==
    IF pos >= Len(text) THEN <<>>
    ELSE IF MatchAt(p, text, pos, ic)
    THEN repl \o re_sub(p, repl, text, pos + Len(p.cls), ic)
    ELSE <<text[pos + 1]>> \o re_sub(p, repl, text, pos + 1, ic)

Rep(cls, n) == [i \in 1..n |-> cls]

---------------------------------------------------------------------------
(* core.py: the classifiers.                                               *)

is_common_word(word) == lower(word) \in COMMON_WORDS

\* The UUID pattern with the upper-case hexadecimal digits forgotten.
uuid_pattern_lowercase_only ==
    LET hex == Digits \cup {"a", "b", "c", "d", "e", "f"} IN
    [cls |-> Rep(hex, 8) \o <<{"-"}>> \o Rep(hex, 4) \o <<{"-"}>>
             \o Rep(hex, 4) \o <<{"-"}>> \o Rep(hex, 4) \o <<{"-"}>>
             \o Rep(hex, 12),
     end |-> TRUE]

\* r"^[0-9a-fA-F]{8}-[0-9a-fA-F]{4}-[0-9a-fA-F]{4}-[0-9a-fA-F]{4}-[0-9a-fA-F]{12}$"
uuid_pattern ==
    [cls |-> Rep(HexChars, 8) \o <<{"-"}>> \o Rep(HexChars, 4) \o <<{"-"}>>
             \o Rep(HexChars, 4) \o <<{"-"}>> \o Rep(HexChars, 4) \o <<{"-"}>>
             \o Rep(HexChars, 12),
     end |-> TRUE]

AllIn(s, cls) == \A i \in 1..Len(s) : s[i] \in cls

\* re.match(r"^[0-9a-fA-F]+$", text)
hex_match(text) ==
    \/ Len(text) >= 1 /\ AllIn(text, HexChars)
    \/ Len(text) >= 2 /\ text[Len(text)] = NL
       /\ AllIn(SubSeq(text, 1, Len(text) - 1), HexChars)

common_hex_words ==
    { <<"b", "e", "e", "f">>, <<"c", "a", "f", "e">>, <<"d", "e", "a", "d">>,
      <<"f", "a", "c", "e">>, <<"f", "a", "d", "e">>, <<"f", "e", "e", "d">>,
      <<"d", "e", "e", "d">>, <<"b", "e", "a", "d">>, <<"d", "e", "a", "f">> }

common_ports ==
    { <<"8", "0", "8", "0">>, <<"8", "4", "4", "3">>, <<"3", "0", "0", "0">>,
      <<"5", "4", "3", "2">>, <<"3", "3", "0", "6">>, <<"5", "0", "0", "0">>,
      <<"9", "0", "0", "0">> }

\* hex_numeric_exempt with the years left out.
hex_numeric_exempt_without_years(text) ==
    LET num_val == int(text) IN
    \/ InRange(<<"1">>, num_val, <<"1", "0", "0", "0">>)
    \/ num_val \in common_ports

\* core.py 50-55: years, small numbers and common ports.
hex_numeric_exempt(text) ==
    LET num_val == int(text) IN
    \/ InRange(<<"1", "9", "0", "0">>, num_val, <<"2", "1", "0", "0">>)
    \/ InRange(<<"1">>, num_val, <<"1", "0", "0", "0">>)
    \/ num_val \in common_ports

\* core.py 59-62
hex_likely_random(text) ==
    /\ Len(text) >= 6 \/ (any_digit(text) /\ any_alpha(text))
    /\ lower(text) \notin common_hex_words

\* core.py 71-75
short_numeric_id(text) ==
    /\ Len(text) >= 6 /\ isdigit(text)
    /\ ~ ( \/ InRange(<<"1", "9", "0", "0">>, int(text), <<"2", "1", "0", "0">>)
           \/ NumLeq(int(text), <<"1", "0", "0">>) )

\* core.py 78-84
epoch_timestamp(text) ==
    /\ isdigit(text)
    /\ \/ Len(text) = 10
          /\ InRange(<<"1", "0", "0", "0", "0", "0", "0", "0", "0", "0">>, int(text),
                     <<"2", "1", "4", "7", "4", "8", "3", "6", "4", "7">>)
       \/ Len(text) = 13
          /\ InRange(<<"1", "0", "0", "0", "0", "0", "0", "0", "0", "0", "0", "0", "0">>,
                     int(text),
                     <<"2", "1", "4", "7", "4", "8", "3", "6", "4", "7", "0", "0", "0">>)

\* core.py 87-89
exact_match(text) ==
    \E k \in DOMAIN EXACT_MATCH_PATTERNS : re_match(EXACT_MATCH_PATTERNS[k], text, FALSE)

\* core.py 92-94
human_readable_datetime(text) ==
    \E k \in DOMAIN HUMAN_READABLE_DATETIME_PATTERNS :
        re_match(HUMAN_READABLE_DATETIME_PATTERNS[k], text, TRUE)

Vowels == {"a", "e", "i", "o", "u"}

\* core.py 97-102
vowelless_mixed(text) ==
    /\ Len(text) >= 6
    /\ any_digit(text)
    /\ any_alpha(text)
    /\ ~ \E i \in 2..(Len(text) - 1) : ToLower(text[i]) \in Vowels

\* core.py 106-110
base64_padded(text) ==
    /\ Len(text) >= 8
    /\ endswith(text, <<"=">>)
    /\ \E k \in 1..Len(text) :
        /\ \A i \in 1..k : text[i] \in Base64Chars
        /\ \A i \in (k + 1)..Len(text) : text[i] = "="

is_always_redact_pattern(text) ==
    IF re_match(uuid_pattern, text, FALSE) THEN TRUE
    ELSE IF Len(text) >= 4 /\ hex_match(text) /\ isdigit(text) /\ hex_numeric_exempt(text)
    THEN FALSE
    ELSE IF Len(text) >= 4 /\ hex_match(text) /\ hex_likely_random(text) THEN TRUE
    ELSE IF Len(text) >= 8 /\ isdigit(text) THEN TRUE
    ELSE IF short_numeric_id(text) THEN TRUE
    ELSE IF epoch_timestamp(text) THEN TRUE
    ELSE IF exact_match(text) THEN TRUE
    ELSE IF human_readable_datetime(text) THEN TRUE
    ELSE IF vowelless_mixed(text) THEN TRUE
    ELSE IF base64_padded(text) THEN TRUE
    ELSE FALSE

has_word_pattern(text) ==
    LET text_lower == lower(text)
        vowel_count == Cardinality({i \in 1..Len(text_lower) : text_lower[i] \in Vowels})
    IN
    \/ \E prefix \in COMMON_PREFIXES :
        startswith(text_lower, prefix) /\ Len(text) > Len(prefix) + 2
    \/ \E suffix \in COMMON_SUFFIXES :
        endswith(text_lower, suffix) /\ Len(text) > Len(suffix) + 2
    \* 0.2 <= vowel_count / len(text) <= 0.5, and 0 for the empty text
    \/ Len(text) > 0 /\ Len(text) <= 5 * vowel_count /\ 2 * vowel_count <= Len(text)

\* round(math.log2(n) * 10^6), n = 1..40
Log2Micro ==
    <<0, 1000000, 1584963, 2000000, 2321928, 2584963, 2807355, 3000000, 3169925,
      3321928, 3459432, 3584963, 3700440, 3807355, 3906891, 4000000, 4087463,
      4169925, 4247928, 4321928, 4392317, 4459432, 4523562, 4584963, 4643856,
      4700440, 4754888, 4807355, 4857981, 4906891, 4954196, 5000000, 5044394,
      5087463, 5129283, 5169925, 5209453, 5247928, 5285402, 5321928>>

RECURSIVE SumSeq(_)
SumSeq(s) == IF Len(s) = 0 THEN 0 ELSE Head(s) + SumSeq(Tail(s))

\* core.py 145-161, in micro-bits.  The counts n_c are those of the
\* characters of text.lower(), the length L is len(text):
\*   -sum_c (n_c/L) log2(n_c/L) = (1/L) sum_i (log2(L) - log2(n_{c(i)})),
\* i over the characters of text.lower().
calculate_entropy(text) ==
    IF Len(text) = 0 THEN 0
    ELSE
        LET low == lower(text)
            length == Len(text)
            char_count(i) == Cardinality({j \in 1..Len(low) : low[j] = low[i]})
            logs == [i \in 1..Len(low) |-> Log2Micro[char_count(i)]]
        IN  (Len(low) * Log2Micro[length] - SumSeq(logs)) \div length

SettingsGet(key, default) ==
    IF key \in DOMAIN ENTROPY_SETTINGS THEN ENTROPY_SETTINGS[key] ELSE default

\* An argument, or the configured default when it is None.
OrDefault(arg, key, default) ==
    IF arg = <<>> THEN SettingsGet(key, default) ELSE arg[1]

\* classify_segment with the final comparison turned round.
classify_segment_reversed(segment, entropy_threshold) ==
    IF is_always_redact_pattern(segment) THEN TRUE
    ELSE IF is_common_word(segment) THEN FALSE
    ELSE
        LET threshold ==
                IF has_word_pattern(segment)
                THEN entropy_threshold + SettingsGet("word_pattern_bonus", 500000)
                ELSE entropy_threshold
            adjusted_entropy ==
                calculate_entropy(segment)
                + (IF any_upper(segment) /\ any_lower(segment) THEN 300000 ELSE 0)
                + (IF any_digit(segment) /\ any_alpha(segment) THEN 400000 ELSE 0)
                + (IF 5 * Cardinality({i \in 1..Len(segment) : segment[i] \in Digits})
                        > 3 * Len(segment) THEN 200000 ELSE 0)
        IN  adjusted_entropy <= threshold

\* classify_segment with the lexicon check left out.
classify_segment_without_lexicon(segment, entropy_threshold) ==
    IF is_always_redact_pattern(segment) THEN TRUE
    ELSE
        LET threshold ==
                IF has_word_pattern(segment)
                THEN entropy_threshold + SettingsGet("word_pattern_bonus", 500000)
                ELSE entropy_threshold
            adjusted_entropy ==
                calculate_entropy(segment)
                + (IF any_upper(segment) /\ any_lower(segment) THEN 300000 ELSE 0)
                + (IF any_digit(segment) /\ any_alpha(segment) THEN 400000 ELSE 0)
                + (IF 5 * Cardinality({i \in 1..Len(segment) : segment[i] \in Digits})
                        > 3 * Len(segment) THEN 200000 ELSE 0)
        IN  adjusted_entropy >= threshold

\* core.py 185-219: the decision for a segment that is long enough.
classify_segment(segment, entropy_threshold) ==
    IF is_always_redact_pattern(segment) THEN TRUE
    ELSE IF is_common_word(segment) THEN FALSE
    ELSE
        LET threshold ==
                IF has_word_pattern(segment)
                THEN entropy_threshold + SettingsGet("word_pattern_bonus", 500000)
                ELSE entropy_threshold
            entropy == calculate_entropy(segment)
            has_mixed_case == any_upper(segment) /\ any_lower(segment)
            has_digits_and_letters == any_digit(segment) /\ any_alpha(segment)
            digits == Cardinality({i \in 1..Len(segment) : segment[i] \in Digits})
            adjusted_entropy ==
                entropy
                + (IF has_mixed_case THEN 300000 ELSE 0)
                + (IF has_digits_and_letters THEN 400000 ELSE 0)
                \* digit_ratio > 0.6
                + (IF 5 * digits > 3 * Len(segment) THEN 200000 ELSE 0)
        IN  adjusted_entropy >= threshold

\* is_high_entropy_segment with the always-redact patterns tried before the
\* length check.
is_high_entropy_segment_pattern_first(segment, entropy_threshold_arg, min_length_arg) ==
    LET entropy_threshold == OrDefault(entropy_threshold_arg, "default_threshold", 2500000)
        min_length == OrDefault(min_length_arg, "min_length", 4)
    IN
    IF is_always_redact_pattern(segment) THEN TRUE
    ELSE IF Len(segment) < min_length THEN FALSE
    ELSE classify_segment(segment, entropy_threshold)

\* is_high_entropy_segment without its length check.
is_high_entropy_segment_any_length(segment, entropy_threshold_arg, min_length_arg) ==
    classify_segment(segment, OrDefault(entropy_threshold_arg, "default_threshold", 2500000))

is_high_entropy_segment(segment, entropy_threshold_arg, min_length_arg) ==
    LET entropy_threshold == OrDefault(entropy_threshold_arg, "default_threshold", 2500000)
        min_length == OrDefault(min_length_arg, "min_length", 4)
    IN
    IF Len(segment) < min_length THEN FALSE
    ELSE classify_segment(segment, entropy_threshold)

---------------------------------------------------------------------------
(* core.py: the two redaction strategies.                                  *)

\* re.sub(r"\*\*", "*", result): each pair of "*" made one, runs not collapsed.
RECURSIVE condense_pairs(_)
condense_pairs(s) ==
    IF Len(s) = 0 THEN <<>>
    ELSE IF Len(s) >= 2 /\ s[1] = STAR /\ s[2] = STAR
    THEN <<STAR>> \o condense_pairs(Tail(Tail(s)))
    ELSE <<Head(s)>> \o condense_pairs(Tail(s))

\* re.sub(r"\*+", "*", result)
RECURSIVE condense(_)
condense(s) ==
    IF Len(s) = 0 THEN <<>>
    ELSE IF Len(s) >= 2 /\ s[1] = STAR /\ s[2] = STAR THEN condense(Tail(s))
    ELSE <<Head(s)>> \o condense(Tail(s))

\* The end (exclusive, 0-based) of the maximal run of alphanumeric, or of
\* non-alphanumeric, characters that starts at 0-based offset i.
RECURSIVE RunEnd(_, _)
RunEnd(text, i) ==
    IF i + 1 < Len(text) /\ ((text[i + 1] \in Alnum) <=> (text[i + 2] \in Alnum))
    THEN RunEnd(text, i + 1)
    ELSE i + 1

\* re.split(r"([^a-zA-Z0-9]+)", text) without the empty strings it yields at
\* the ends: the maximal runs, from offset i on.
RECURSIVE split_parts(_, _)
split_parts(text, i) ==
    IF i >= Len(text) THEN <<>>
    ELSE <<Slice(text, i, RunEnd(text, i))>> \o split_parts(text, RunEnd(text, i))

RECURSIVE Concat(_)
Concat(parts) == IF Len(parts) = 0 THEN <<>> ELSE Head(parts) \o Concat(Tail(parts))

\* core.py 351-355: the spans of every multi-token pattern, pattern by pattern.
RECURSIVE datetime_spans(_, _)
datetime_spans(patterns, text) ==
    IF Len(patterns) = 0 THEN <<>>
    ELSE finditer(Head(patterns), text, 0, TRUE) \o datetime_spans(Tail(patterns), text)

\* core.py 358-359: the selective substitutions, one after the other.
RECURSIVE aws_substitute(_, _)
aws_substitute(patterns, text) ==
    IF Len(patterns) = 0 THEN text
    ELSE aws_substitute(Tail(patterns),
                        re_sub(Head(patterns)[1], Head(patterns)[2], text, 0, TRUE))

\* list.sort(key=start, reverse=True): descending by start, stable.
RECURSIVE InsertDesc(_, _)
InsertDesc(sorted, span) ==
    IF Len(sorted) = 0 THEN <<span>>
    ELSE IF Head(sorted)[1] >= span[1] THEN <<Head(sorted)>> \o InsertDesc(Tail(sorted), span)
    ELSE <<span>> \o sorted

RECURSIVE SortDesc(_, _)
SortDesc(sorted, spans) ==
    IF Len(spans) = 0 THEN sorted
    ELSE SortDesc(InsertDesc(sorted, Head(spans)), Tail(spans))

\* core.py 366-367: result_text[:start] + replacement + result_text[end:]
RECURSIVE apply_spans(_, _)
apply_spans(text, spans) ==
    IF Len(spans) = 0 THEN text
    ELSE
        LET start == Head(spans)[1]
            end == Head(spans)[2]
        IN  apply_spans(Slice(text, 0, start) \o Stars(end - start)
                            \o Slice(text, end, Len(text)),
                        Tail(spans))

\* core.py 347-368: the line after the pattern pre-pass.
pattern_prepass(text) ==
    LET datetime_replacements == datetime_spans(REDACTION_PATTERNS, text)
        substituted == aws_substitute(AWS_SELECTIVE_PATTERNS, text)
    IN  apply_spans(substituted, SortDesc(<<>>, datetime_replacements))

\* redact_part with a flagged token replaced by a single "*".
redact_part_one_star(part, entropy_threshold, min_length) ==
    IF Len(part) > 0 /\ AllIn(part, Alnum)
       /\ is_high_entropy_segment(part, entropy_threshold, min_length)
    THEN <<STAR>>
    ELSE part

\* redact_part without the test that the part is alphanumeric.
redact_part_any(part, entropy_threshold, min_length) ==
    IF Len(part) > 0 /\ is_high_entropy_segment(part, entropy_threshold, min_length)
    THEN Stars(Len(part))
    ELSE part

\* redact_part that leaves the last character of a flagged token.
redact_part_keep_last(part, entropy_threshold, min_length) ==
    IF Len(part) > 0 /\ AllIn(part, Alnum)
       /\ is_high_entropy_segment(part, entropy_threshold, min_length)
    THEN Stars(Len(part) - 1) \o <<part[Len(part)]>>
    ELSE part

\* redact_part that masks only the first character of a flagged token.
redact_part_first_char(part, entropy_threshold, min_length) ==
    IF Len(part) > 0 /\ AllIn(part, Alnum)
       /\ is_high_entropy_segment(part, entropy_threshold, min_length)
    THEN <<STAR>> \o Tail(part)
    ELSE part

\* core.py 374-381
redact_part(part, entropy_threshold, min_length) ==
    IF Len(part) > 0 /\ AllIn(part, Alnum)
       /\ is_high_entropy_segment(part, entropy_threshold, min_length)
    THEN Stars(Len(part))
    ELSE part

redact_high_entropy_tokens(text_arg, entropy_threshold_arg, min_length_arg, condense_asterisks_arg) ==
    LET entropy_threshold ==
            <<OrDefault(entropy_threshold_arg, "default_threshold", 2500000)>>
        min_length == <<OrDefault(min_length_arg, "min_length", 4)>>
        condense_asterisks ==
            IF condense_asterisks_arg = <<>> THEN FALSE ELSE condense_asterisks_arg[1]
        text == pattern_prepass(text_arg)
        parts == split_parts(text, 0)
        redacted_parts ==
            [k \in 1..Len(parts) |-> redact_part(parts[k], entropy_threshold, min_length)]
        joined == Concat(redacted_parts)
    IN  IF condense_asterisks THEN condense(joined) ELSE joined

redact_sensitive_data(text, entropy_threshold, min_length, condense_asterisks) ==
    redact_high_entropy_tokens(text, entropy_threshold, min_length, condense_asterisks)

\* core.py 284-291: the left boundary, extended while the window stays flagged.
RECURSIVE extend_backwards(_, _, _, _, _)
extend_backwards(token, start, end, entropy_threshold, min_length) ==
    IF start > 0
       /\ is_high_entropy_segment(Slice(token, start - 1, end), entropy_threshold, min_length)
    THEN extend_backwards(token, start - 1, end, entropy_threshold, min_length)
    ELSE start

\* A forward loop that runs to the end of the token without classifying.
extend_forwards_unchecked(token, start, end, entropy_threshold, min_length) == Len(token)

\* core.py 294-301: the right boundary.
RECURSIVE extend_forwards(_, _, _, _, _)
extend_forwards(token, start, end, entropy_threshold, min_length) ==
    IF end < Len(token)
       /\ is_high_entropy_segment(Slice(token, start, end + 1), entropy_threshold, min_length)
    THEN extend_forwards(token, start, end + 1, entropy_threshold, min_length)
    ELSE end

\* core.py 275-310: the scan of one token from index i, redacted_chars so far.
RECURSIVE sliding_scan(_, _, _, _, _, _)
sliding_scan(token, i, redacted_chars, entropy_threshold, min_length, window_size) ==
    IF ~ (i <= Len(token) - window_size) THEN redacted_chars
    ELSE IF is_high_entropy_segment(Slice(token, i, i + window_size),
                                    entropy_threshold, min_length)
    THEN
        LET start == extend_backwards(token, i, i + window_size,
                                      entropy_threshold, min_length)
            end == extend_forwards(token, start, i + window_size,
                                   entropy_threshold, min_length)
            marked == [j \in 1..Len(token) |->
                        IF start < j /\ j <= end THEN STAR ELSE redacted_chars[j]]
        IN  sliding_scan(token, end, marked, entropy_threshold, min_length, window_size)
    ELSE sliding_scan(token, i + 1, redacted_chars, entropy_threshold, min_length,
                      window_size)

\* core.py 260-312
redact_token(token, entropy_threshold, min_length, window_size) ==
    IF ~ AllIn(token, Alnum) THEN token
    ELSE IF Len(token) < min_length[1] THEN token
    ELSE sliding_scan(token, 0, token, entropy_threshold, min_length, window_size)

redact_high_entropy_strings(text, entropy_threshold_arg, min_length_arg, window_size_arg, condense_asterisks_arg) ==
    LET entropy_threshold ==
            <<OrDefault(entropy_threshold_arg, "default_threshold", 2500000)>>
        min_length == <<OrDefault(min_length_arg, "min_length", 4)>>
        window_size == OrDefault(window_size_arg, "window_size", 6)
        condense_asterisks ==
            IF condense_asterisks_arg = <<>> THEN FALSE ELSE condense_asterisks_arg[1]
    IN
    IF Len(text) < min_length[1] THEN text
    ELSE
        \* re.findall(r"[a-zA-Z0-9]+|[^a-zA-Z0-9]", text) cuts a separator run
        \* into single characters, each kept as it is
        LET tokens == split_parts(text, 0)
            redacted_tokens ==
                [k \in 1..Len(tokens) |->
                    redact_token(tokens[k], entropy_threshold, min_length, window_size)]
            joined == Concat(redacted_tokens)
        IN  IF condense_asterisks THEN condense(joined) ELSE joined

---------------------------------------------------------------------------
(* config.py: the module globals and load_config.                          *)

required_detection_keys ==
    {"default_threshold", "word_pattern_bonus", "min_length", "window_size"}

EmptyDict == [k \in {} |-> 0]

\* The names of a pattern file's groups, in the order of the file.
RECURSIVE GroupPatterns(_, _)
GroupPatterns(enabled, groups) ==
    IF Len(enabled) = 0 THEN <<>>
    ELSE
        LET group_name == Head(enabled)
            here == IF group_name = "aws_selective_patterns" THEN <<>>
                    ELSE IF group_name \in DOMAIN groups THEN groups[group_name]
                    ELSE <<>>
        IN  here \o GroupPatterns(Tail(enabled), groups)

\* What load_config prints before exit(1): config.py 83, 86, 98, 113, 130,
\* 133, 192, 195.
FileNotFoundMessage == "Error: Required config file not found."

ParseFailureMessage == "Error: Failed to parse YAML config"

MissingSectionMessage == "Error: Missing 'entropy_detection' section"

MissingSettingMessage == "Error: Missing required setting"

(* load_config reads the three files in turn and assigns the globals as it  *)
(* goes; a missing or unparsable file, a missing 'entropy_detection'        *)
(* section or a missing key ends the call in exit(1) at that point.  The    *)
(* global CONFIG, which nothing reads, is left out; stdout is what the call  *)
(* printed.                                                                 *)
load_config(words_file, entropy_file, patterns_file) ==
    LET words_ok == words_file.status = "ok"
        detection_settings == entropy_file.entropy_detection
        entropy_ok ==
            /\ words_ok
            /\ entropy_file.status = "ok"
            /\ DOMAIN detection_settings # {}
            /\ required_detection_keys \subseteq DOMAIN detection_settings
        patterns_ok == entropy_ok /\ patterns_file.status = "ok"
    IN
    /\ pc = "idle"
    /\ COMMON_WORDS' =
        IF words_ok THEN {lower(word) : word \in words_file.common_words}
        ELSE COMMON_WORDS
    /\ COMMON_PREFIXES' = IF words_ok THEN words_file.prefixes ELSE COMMON_PREFIXES
    /\ COMMON_SUFFIXES' = IF words_ok THEN words_file.suffixes ELSE COMMON_SUFFIXES
    /\ ENTROPY_SETTINGS' =
        IF entropy_ok
        THEN [key \in required_detection_keys |-> detection_settings[key]]
        ELSE ENTROPY_SETTINGS
    /\ REDACTION_PATTERNS' =
        IF patterns_ok
        THEN GroupPatterns(patterns_file.enabled, patterns_file.groups)
             \o patterns_file.custom_patterns
        ELSE REDACTION_PATTERNS
    /\ AWS_SELECTIVE_PATTERNS' =
        IF patterns_ok THEN patterns_file.aws_selective_patterns
        ELSE AWS_SELECTIVE_PATTERNS
    /\ EXACT_MATCH_PATTERNS' =
        IF patterns_ok THEN patterns_file.exact_match_patterns
        ELSE EXACT_MATCH_PATTERNS
    /\ HUMAN_READABLE_DATETIME_PATTERNS' =
        IF patterns_ok THEN patterns_file.human_readable_datetime_patterns
        ELSE HUMAN_READABLE_DATETIME_PATTERNS
    /\ load_status' = IF patterns_ok THEN "loaded" ELSE "SystemExit"
    /\ stdout' =
        IF words_file.status = "missing" THEN FileNotFoundMessage
        ELSE IF words_file.status # "ok" THEN ParseFailureMessage
        ELSE IF entropy_file.status = "missing" THEN FileNotFoundMessage
        ELSE IF entropy_file.status # "ok" THEN ParseFailureMessage
        ELSE IF DOMAIN detection_settings = {} THEN MissingSectionMessage
        ELSE IF ~ (required_detection_keys \subseteq DOMAIN detection_settings)
        THEN MissingSettingMessage
        ELSE IF patterns_file.status = "missing" THEN FileNotFoundMessage
        ELSE IF patterns_file.status # "ok" THEN ParseFailureMessage
        ELSE ""
    /\ UNCHANGED <<pc, call, result, frames>>

NoCall ==
    [fn |-> "none", text |-> <<>>, entropy_threshold |-> <<>>, min_length |-> <<>>,
     window_size |-> <<>>, condense_asterisks |-> <<>>]

\* The threads that call into the package.
Workers == {1, 2}

\* The local variables of a call no thread is running.
IdleFrame ==
    [pc |-> "idle", call |-> NoCall, exception |-> "",
     entropy_threshold |-> <<>>, min_length |-> <<>>, window_size |-> 0,
     condense_asterisks |-> FALSE,
     tokens |-> <<>>, redacted_tokens |-> <<>>, token |-> <<>>,
     redacted_chars |-> <<>>, i |-> 0, start |-> 0, end |-> 0,
     result |-> <<>>, flag |-> FALSE, entropy |-> 0]

\* The state after import: config.py 12-20.
Init ==
    /\ COMMON_WORDS = {}
    /\ COMMON_PREFIXES = {}
    /\ COMMON_SUFFIXES = {}
    /\ ENTROPY_SETTINGS = EmptyDict
    /\ REDACTION_PATTERNS = <<>>
    /\ AWS_SELECTIVE_PATTERNS = <<>>
    /\ EXACT_MATCH_PATTERNS = <<>>
    /\ HUMAN_READABLE_DATETIME_PATTERNS = <<>>
    /\ load_status = "unloaded"
    /\ pc = "idle"
    /\ call = NoCall
    /\ result = <<>>
    /\ frames = [t \in Workers |-> IdleFrame]
    /\ stdout = ""

---------------------------------------------------------------------------
(* Calls of the public functions: a call runs to its return in one step,   *)
(* reading the globals; the caller then takes the result.                  *)

CallIsAlwaysRedact(text) ==
    /\ pc = "idle"
    /\ pc' = "returned"
    /\ call' = [NoCall EXCEPT !.fn = "is_always_redact_pattern", !.text = text]
    /\ result' = is_always_redact_pattern(text)
    /\ UNCHANGED <<config_vars, load_status, frames, stdout>>

CallCalculateEntropy(text) ==
    /\ pc = "idle"
    /\ pc' = "returned"
    /\ call' = [NoCall EXCEPT !.fn = "calculate_entropy", !.text = text]
    /\ result' = calculate_entropy(text)
    /\ UNCHANGED <<config_vars, load_status, frames, stdout>>

CallIsHighEntropy(segment, entropy_threshold, min_length) ==
    /\ pc = "idle"
    /\ pc' = "returned"
    /\ call' = [NoCall EXCEPT !.fn = "is_high_entropy_segment", !.text = segment,
                              !.entropy_threshold = entropy_threshold,
                              !.min_length = min_length]
    /\ result' = is_high_entropy_segment(segment, entropy_threshold, min_length)
    /\ UNCHANGED <<config_vars, load_status, frames, stdout>>

CallRedactTokens(text, entropy_threshold, min_length, condense_asterisks) ==
    /\ pc = "idle"
    /\ pc' = "returned"
    /\ call' = [NoCall EXCEPT !.fn = "redact_high_entropy_tokens", !.text = text,
                              !.entropy_threshold = entropy_threshold,
                              !.min_length = min_length,
                              !.condense_asterisks = condense_asterisks]
    /\ result' = redact_high_entropy_tokens(text, entropy_threshold, min_length,
                                            condense_asterisks)
    /\ UNCHANGED <<config_vars, load_status, frames, stdout>>

CallRedactSensitiveData(text, entropy_threshold, min_length, condense_asterisks) ==
    /\ pc = "idle"
    /\ pc' = "returned"
    /\ call' = [NoCall EXCEPT !.fn = "redact_sensitive_data", !.text = text,
                              !.entropy_threshold = entropy_threshold,
                              !.min_length = min_length,
                              !.condense_asterisks = condense_asterisks]
    /\ result' = redact_sensitive_data(text, entropy_threshold, min_length,
                                       condense_asterisks)
    /\ UNCHANGED <<config_vars, load_status, frames, stdout>>

CallRedactSliding(text, entropy_threshold, min_length, window_size, condense_asterisks) ==
    /\ pc = "idle"
    /\ pc' = "returned"
    /\ call' = [NoCall EXCEPT !.fn = "redact_high_entropy_strings", !.text = text,
                              !.entropy_threshold = entropy_threshold,
                              !.min_length = min_length,
                              !.window_size = window_size,
                              !.condense_asterisks = condense_asterisks]
    /\ result' = redact_high_entropy_strings(text, entropy_threshold, min_length,
                                             window_size, condense_asterisks)
    /\ UNCHANGED <<config_vars, load_status, frames, stdout>>

\* The caller passes the result of redact_high_entropy_tokens to the function
\* once more, with the same arguments; call.text stays the first line.
CallRedactTokensAgain ==
    /\ pc = "returned"
    /\ call.fn = "redact_high_entropy_tokens"
    /\ pc' = "returned_again"
    /\ result' = redact_high_entropy_tokens(result, call.entropy_threshold,
                                            call.min_length, call.condense_asterisks)
    /\ UNCHANGED <<config_vars, load_status, frames, stdout, call>>

ReturnAgain ==
    /\ pc = "returned_again"
    /\ pc' = "idle"
    /\ call' = NoCall
    /\ result' = <<>>
    /\ UNCHANGED <<config_vars, load_status, frames, stdout>>

Return ==
    /\ pc = "returned"
    /\ pc' = "idle"
    /\ call' = NoCall
    /\ result' = <<>>
    /\ UNCHANGED <<config_vars, load_status, frames, stdout>>

---------------------------------------------------------------------------
(* Calls made by threads.  Each thread has the local variables of its call *)
(* in frames[t]; redact_high_entropy_strings runs one loop iteration at a  *)
(* step, the other functions, which have no loop over shared data, run to  *)
(* their return in one step.  A call ends in "returned" or in "raised".    *)

\* core.py 210: digit_ratio divides by len(segment); an empty segment that
\* gets there (min_length <= 0, no pattern, no lexicon word) raises
\* ZeroDivisionError.
is_high_entropy_segment_raises(segment, entropy_threshold_arg, min_length_arg) ==
    LET min_length == OrDefault(min_length_arg, "min_length", 4) IN
    /\ Len(segment) = 0
    /\ ~ (Len(segment) < min_length)
    /\ ~ is_always_redact_pattern(segment)
    /\ ~ is_common_word(segment)

\* core.py 284-291: whether a classification of the backward loop raises.
RECURSIVE extend_backwards_raises(_, _, _, _, _)
extend_backwards_raises(token, start, end, entropy_threshold, min_length) ==
    IF start > 0
    THEN LET extended_window == Slice(token, start - 1, end) IN
         IF is_high_entropy_segment_raises(extended_window, entropy_threshold, min_length)
         THEN TRUE
         ELSE IF is_high_entropy_segment(extended_window, entropy_threshold, min_length)
         THEN extend_backwards_raises(token, start - 1, end, entropy_threshold, min_length)
         ELSE FALSE
    ELSE FALSE

\* core.py 294-301: whether a classification of the forward loop raises.
RECURSIVE extend_forwards_raises(_, _, _, _, _)
extend_forwards_raises(token, start, end, entropy_threshold, min_length) ==
    IF end < Len(token)
    THEN LET extended_window == Slice(token, start, end + 1) IN
         IF is_high_entropy_segment_raises(extended_window, entropy_threshold, min_length)
         THEN TRUE
         ELSE IF is_high_entropy_segment(extended_window, entropy_threshold, min_length)
         THEN extend_forwards_raises(token, start, end + 1, entropy_threshold, min_length)
         ELSE FALSE
    ELSE FALSE

SetFrame(t, frame) ==
    /\ frames' = [frames EXCEPT ![t] = frame]
    /\ UNCHANGED <<config_vars, load_status, pc, call, result, stdout>>

RunCalculateEntropy(t, text) ==
    /\ frames[t].pc = "idle"
    /\ SetFrame(t, [IdleFrame EXCEPT
            !.pc = "returned",
            !.call = [NoCall EXCEPT !.fn = "calculate_entropy", !.text = text],
            !.entropy = calculate_entropy(text)])

RunIsHighEntropy(t, segment, entropy_threshold, min_length) ==
    LET this == [NoCall EXCEPT !.fn = "is_high_entropy_segment", !.text = segment,
                               !.entropy_threshold = entropy_threshold,
                               !.min_length = min_length]
    IN
    /\ frames[t].pc = "idle"
    /\ IF is_high_entropy_segment_raises(segment, entropy_threshold, min_length)
       THEN SetFrame(t, [IdleFrame EXCEPT !.pc = "raised", !.call = this,
                                          !.exception = "ZeroDivisionError"])
       ELSE SetFrame(t, [IdleFrame EXCEPT
                !.pc = "returned", !.call = this,
                !.flag = is_high_entropy_segment(segment, entropy_threshold, min_length)])

RunRedactTokens(t, text, entropy_threshold, min_length, condense_asterisks) ==
    /\ frames[t].pc = "idle"
    /\ SetFrame(t, [IdleFrame EXCEPT
            !.pc = "returned",
            !.call = [NoCall EXCEPT !.fn = "redact_high_entropy_tokens", !.text = text,
                                    !.entropy_threshold = entropy_threshold,
                                    !.min_length = min_length,
                                    !.condense_asterisks = condense_asterisks],
            !.result = redact_high_entropy_tokens(text, entropy_threshold, min_length,
                                                  condense_asterisks)])

RunRedactSensitiveData(t, text, entropy_threshold, min_length, condense_asterisks) ==
    /\ frames[t].pc = "idle"
    /\ SetFrame(t, [IdleFrame EXCEPT
            !.pc = "returned",
            !.call = [NoCall EXCEPT !.fn = "redact_sensitive_data", !.text = text,
                                    !.entropy_threshold = entropy_threshold,
                                    !.min_length = min_length,
                                    !.condense_asterisks = condense_asterisks],
            !.result = redact_sensitive_data(text, entropy_threshold, min_length,
                                             condense_asterisks)])

\* BeginRedactSliding that keeps the min_length it worked out in the shared
\* settings for the calls to come.
BeginRedactSliding_keeping_min_length(t, text, entropy_threshold_arg, min_length_arg, window_size_arg, condense_asterisks_arg) ==
    LET min_length == OrDefault(min_length_arg, "min_length", 4)
        started ==
            [IdleFrame EXCEPT
                !.call = [NoCall EXCEPT !.fn = "redact_high_entropy_strings",
                                        !.text = text,
                                        !.entropy_threshold = entropy_threshold_arg,
                                        !.min_length = min_length_arg,
                                        !.window_size = window_size_arg,
                                        !.condense_asterisks = condense_asterisks_arg],
                !.entropy_threshold =
                    <<OrDefault(entropy_threshold_arg, "default_threshold", 2500000)>>,
                !.min_length = <<min_length>>,
                !.window_size = OrDefault(window_size_arg, "window_size", 6),
                !.condense_asterisks =
                    IF condense_asterisks_arg = <<>> THEN FALSE
                    ELSE condense_asterisks_arg[1]]
    IN
    /\ frames[t].pc = "idle"
    /\ frames' = [frames EXCEPT ![t] =
            IF Len(text) < min_length
            THEN [started EXCEPT !.pc = "returned", !.result = text]
            ELSE [started EXCEPT !.pc = "tokens", !.tokens = split_parts(text, 0)]]
    /\ ENTROPY_SETTINGS' =
        [key \in DOMAIN ENTROPY_SETTINGS \cup {"min_length"} |->
            IF key = "min_length" THEN min_length ELSE ENTROPY_SETTINGS[key]]
    /\ UNCHANGED <<COMMON_WORDS, COMMON_PREFIXES, COMMON_SUFFIXES, REDACTION_PATTERNS,
                   AWS_SELECTIVE_PATTERNS, EXACT_MATCH_PATTERNS,
                   HUMAN_READABLE_DATETIME_PATTERNS, load_status, pc, call, result,
                   stdout>>

\* core.py 242-258: the defaults, the early return and the tokens.
BeginRedactSliding(t, text, entropy_threshold_arg, min_length_arg, window_size_arg, condense_asterisks_arg) ==
    LET min_length == OrDefault(min_length_arg, "min_length", 4)
        started ==
            [IdleFrame EXCEPT
                !.call = [NoCall EXCEPT !.fn = "redact_high_entropy_strings",
                                        !.text = text,
                                        !.entropy_threshold = entropy_threshold_arg,
                                        !.min_length = min_length_arg,
                                        !.window_size = window_size_arg,
                                        !.condense_asterisks = condense_asterisks_arg],
                !.entropy_threshold =
                    <<OrDefault(entropy_threshold_arg, "default_threshold", 2500000)>>,
                !.min_length = <<min_length>>,
                !.window_size = OrDefault(window_size_arg, "window_size", 6),
                !.condense_asterisks =
                    IF condense_asterisks_arg = <<>> THEN FALSE
                    ELSE condense_asterisks_arg[1]]
    IN
    /\ frames[t].pc = "idle"
    /\ IF Len(text) < min_length
       THEN SetFrame(t, [started EXCEPT !.pc = "returned", !.result = text])
       ELSE SetFrame(t, [started EXCEPT !.pc = "tokens",
                                        !.tokens = split_parts(text, 0)])

\* core.py 260-273 and 312-320: the next token of the for loop, or the end
\* of the loop.
NextToken(t) ==
    LET f == frames[t]
        done == Len(f.redacted_tokens)
        token == f.tokens[done + 1]
        joined == Concat(f.redacted_tokens)
    IN
    /\ f.pc = "tokens"
    /\ IF done = Len(f.tokens)
       THEN SetFrame(t, [f EXCEPT
                !.pc = "returned",
                !.result = IF f.condense_asterisks THEN condense(joined) ELSE joined])
       ELSE IF ~ AllIn(token, Alnum) \/ Len(token) < f.min_length[1]
       THEN SetFrame(t, [f EXCEPT !.redacted_tokens = Append(@, token)])
       ELSE SetFrame(t, [f EXCEPT !.pc = "scan", !.token = token,
                                  !.redacted_chars = token, !.i = 0])

\* An iteration that goes on from the start of the region it marked.
ScanIteration_rescanning(t) ==
    LET f == frames[t]
        window == Slice(f.token, f.i, f.i + f.window_size)
        raised == [f EXCEPT !.pc = "raised", !.exception = "ZeroDivisionError"]
    IN
    /\ f.pc = "scan"
    /\ IF ~ (f.i <= Len(f.token) - f.window_size)
       THEN SetFrame(t, [f EXCEPT !.pc = "tokens",
                                  !.redacted_tokens = Append(@, f.redacted_chars)])
       ELSE IF is_high_entropy_segment_raises(window, f.entropy_threshold, f.min_length)
       THEN SetFrame(t, raised)
       ELSE IF ~ is_high_entropy_segment(window, f.entropy_threshold, f.min_length)
       THEN SetFrame(t, [f EXCEPT !.i = @ + 1])
       ELSE IF extend_backwards_raises(f.token, f.i, f.i + f.window_size,
                                       f.entropy_threshold, f.min_length)
       THEN SetFrame(t, raised)
       ELSE \E start \in {extend_backwards(f.token, f.i, f.i + f.window_size,
                                             f.entropy_threshold, f.min_length)} :
            IF extend_forwards_raises(f.token, start, f.i + f.window_size,
                                      f.entropy_threshold, f.min_length)
            THEN SetFrame(t, raised)
            ELSE \E end \in {extend_forwards(f.token, start, f.i + f.window_size,
                                               f.entropy_threshold, f.min_length)} :
                 SetFrame(t, [f EXCEPT
                    !.start = start,
                    !.end = end,
                    !.redacted_chars =
                        [j \in 1..Len(f.token) |->
                            IF start < j /\ j <= end THEN STAR ELSE f.redacted_chars[j]],
                    !.i = start])

\* core.py 275-312: one iteration of the while loop, or its end.
ScanIteration(t) ==
    LET f == frames[t]
        window == Slice(f.token, f.i, f.i + f.window_size)
        raised == [f EXCEPT !.pc = "raised", !.exception = "ZeroDivisionError"]
    IN
    /\ f.pc = "scan"
    /\ IF ~ (f.i <= Len(f.token) - f.window_size)
       THEN SetFrame(t, [f EXCEPT !.pc = "tokens",
                                  !.redacted_tokens = Append(@, f.redacted_chars)])
       ELSE IF is_high_entropy_segment_raises(window, f.entropy_threshold, f.min_length)
       THEN SetFrame(t, raised)
       ELSE IF ~ is_high_entropy_segment(window, f.entropy_threshold, f.min_length)
       THEN SetFrame(t, [f EXCEPT !.i = @ + 1])
       ELSE IF extend_backwards_raises(f.token, f.i, f.i + f.window_size,
                                       f.entropy_threshold, f.min_length)
       THEN SetFrame(t, raised)
       ELSE \E start \in {extend_backwards(f.token, f.i, f.i + f.window_size,
                                             f.entropy_threshold, f.min_length)} :
            IF extend_forwards_raises(f.token, start, f.i + f.window_size,
                                      f.entropy_threshold, f.min_length)
            THEN SetFrame(t, raised)
            ELSE \E end \in {extend_forwards(f.token, start, f.i + f.window_size,
                                               f.entropy_threshold, f.min_length)} :
                 SetFrame(t, [f EXCEPT
                    !.start = start,
                    !.end = end,
                    !.redacted_chars =
                        [j \in 1..Len(f.token) |->
                            IF start < j /\ j <= end THEN STAR ELSE f.redacted_chars[j]],
                    !.i = end])

\* The caller takes the result, or catches the exception.
Resume(t) ==
    /\ frames[t].pc \in {"returned", "raised"}
    /\ SetFrame(t, IdleFrame)

\* load_config while no thread is inside a call.
LoadWhenQuiet(words_file, entropy_file, patterns_file) ==
    /\ \A t \in Workers : frames[t].pc = "idle"
    /\ load_config(words_file, entropy_file, patterns_file)

---------------------------------------------------------------------------
(* Inputs: configuration files.                                            *)

MissingWordsFile ==
    [status |-> "missing", common_words |-> {}, prefixes |-> {}, suffixes |-> {}]

\* common_words: data, Decade, facade, area; prefixes: un; suffixes: ed
WordsFile ==
    [status |-> "ok",
     common_words |-> {<<"d", "a", "t", "a">>, <<"D", "e", "c", "a", "d", "e">>, <<"f", "a", "c", "a", "d", "e">>, <<"a", "r", "e", "a">>},
     prefixes |-> {<<"u", "n">>},
     suffixes |-> {<<"e", "d">>}]

NoSectionEntropyFile == [status |-> "ok", entropy_detection |-> EmptyDict]

EntropyFile ==
    [status |-> "ok",
     entropy_detection |->
        [default_threshold |-> 3000000, word_pattern_bonus |-> 500000,
         min_length |-> 3, window_size |-> 2]]

Pat(cls) == [cls |-> cls, end |-> FALSE]

PatEnd(cls) == [cls |-> cls, end |-> TRUE]

\* exact_match_patterns: ^[0-9]{4}$ ; human_readable_datetime_patterns: ^jan
SegPatternsFile ==
    [status |-> "ok",
     enabled |-> <<>>,
     groups |-> EmptyDict,
     custom_patterns |-> <<>>,
     aws_selective_patterns |-> <<>>,
     exact_match_patterns |-> <<PatEnd(Rep(Digits, 4))>>,
     human_readable_datetime_patterns |-> <<Pat(<<{"j"}, {"a"}, {"n"}>>)>>]

---------------------------------------------------------------------------
(* Inputs: segments for the classifiers.                                   *)

MaxSegLen == 4

MaxDigits == 8

StringsOver(alphabet, lo, hi) == UNION {[1..n -> alphabet] : n \in lo..hi}

SegAlphabet == {"a", "z", "1", "E"}

DigitAlphabet == {"0", "2"}

UuidChars == {"0", "e", "F"}

UuidOf(g) ==
    Rep(g[1], 8) \o <<"-">> \o Rep(g[2], 4) \o <<"-">> \o Rep(g[3], 4) \o <<"-">>
    \o Rep(g[4], 4) \o <<"-">> \o Rep(g[5], 12)

Uuids == {UuidOf(g) : g \in [1..5 -> UuidChars]}

SampleSegments ==
    { <<"5", "5", "0", "e", "8", "4", "0", "0", "-", "e", "2", "9", "b", "-", "4", "1", "d", "4", "-", "a", "7", "1", "6", "-", "4", "4", "6", "6", "5", "5", "4", "4", "0", "0", "0", "0">>,
      <<"5", "5", "0", "E", "8", "4", "0", "0", "-", "E", "2", "9", "B", "-", "4", "1", "D", "4", "-", "A", "7", "1", "6", "-", "4", "4", "6", "6", "5", "5", "4", "4", "0", "0", "0", "g">>,
      <<"5", "5", "0", "e", "8", "4", "0", "0", "e", "2", "9", "b", "4", "1", "d", "4", "a", "7", "1", "6", "4", "4", "6", "6", "5", "5", "4", "4", "0", "0", "0", "0">>,
      <<"a", "b", "c", "1", "2", "3", "d", "e", "f", "4", "5", "6">>,
      <<"x", "9", "y", "8", "z", "7", "w", "6", "v", "5", "u", "4">>,
      <<"6", "6", "7", "6", "8", "9", "9", "9", "6">>,
      <<"1", "2", "3", "4", "5", "6", "7", "8", "9", "0", "1", "2">>,
      <<"j", "d", "4", "g", "7">>,
      <<"d", "a", "t", "a">>,
      <<"D", "A", "T", "A">>,
      <<"d", "e", "c", "a", "d", "e">>,
      <<"D", "e", "c", "a", "d", "e">>,
      <<"f", "a", "c", "a", "d", "e">>,
      <<"a", "r", "e", "a">>,
      <<"u", "n", "z", "z", "z", "z">>,
      <<"z", "z", "z", "z", "e", "d">>,
      <<"1", "7", "0", "0", "0", "0", "0", "0", "0", "0">>,
      <<"1", "7", "0", "0", "0", "0", "0", "0", "0", "0", "0", "0", "0">>,
      <<"9", "9", "9", "9", "9", "9", "9", "9", "9", "9">>,
      <<"0", "0", "0", "0", "0", "0", "0", "5", "0", "0", "0", "0", "0">>,
      <<"8", "0", "8", "0">>,
      <<"0", "0", "0", "0", "8", "0", "8", "0">>,
      <<"2", "0", "2", "4">>,
      <<"0", "0", "0", "0", "2", "0", "2", "4">>,
      <<"0", "0", "2", "0", "2", "4">>,
      <<"0", "0", "0", "5", "0", "0">>,
      <<"1", "2", "3", "4", "5", "6">>,
      <<"0", "0", "0", "1", "0", "0">>,
      <<"d", "e", "a", "d">>,
      <<"D", "E", "A", "D">>,
      <<"d", "e", "a", "d", "1">>,
      <<"b", "e", "e", "f">>,
      <<"c", "a", "f", "e", "1", "2">>,
      <<"J", "a", "n">>,
      <<"j", "a", "n", "u", "a", "r", "y">>,
      <<"Y", "W", "J", "j", "Z", "G", "V", "m", "=", "=">>,
      <<"Y", "W", "J", "j", "=", "Z", "G", "V", "m", "=">>,
      <<"z", "z", "z", "z", "z", "z", "z", "=">>,
      <<"k", "8", "s", "q", "7", "z">>,
      <<"k", "8", "s", "a", "q", "z">> }

\* 4-digit numbers at and around the ends of the range of years
YearSegments ==
    { <<"1", "8", "9", "9">>, <<"1", "9", "0", "0">>, <<"1", "9", "9", "9">>,
      <<"2", "1", "0", "0">>, <<"2", "1", "0", "1">> }

Segments ==
    StringsOver(SegAlphabet, 0, MaxSegLen)
    \cup YearSegments
    \cup StringsOver(DigitAlphabet, 5, MaxDigits)
    \cup Uuids
    \cup SampleSegments

ThresholdArgs == {<<>>, <<0>>, <<9000000>>}

MinLengthArgs == {<<>>, <<1>>, <<36>>, <<37>>}

NextSeg ==
    \/ /\ pc = "idle"
       /\ \E words_file \in {MissingWordsFile, WordsFile},
             entropy_file \in {NoSectionEntropyFile, EntropyFile} :
               load_config(words_file, entropy_file, SegPatternsFile)
    \/ /\ pc = "idle"
       /\ \E text \in Segments : CallIsAlwaysRedact(text)
    \/ /\ pc = "idle"
       /\ \E segment \in Segments, entropy_threshold \in ThresholdArgs,
             min_length \in MinLengthArgs :
               CallIsHighEntropy(segment, entropy_threshold, min_length)
    \/ Return

SpecSeg == Init /\ [][NextSeg]_vars

---------------------------------------------------------------------------
(* Inputs: lines for the redactors, and their configurations.              *)

MaxTextLen == 4

\* Lines of letters, a digit and a separator, and lines that already hold
\* a "*".
TextAlphabet == {"a", "b", "e", "1", "-"}

StarredAlphabet == {"a", "1", "*"}

\* Lines with a selective-hostname match ahead of a multi-token match:
\* 111-1 and 11a1-1.
SelectiveSamples ==
    { <<"1", "1", "1", "-", "1">>, <<"1", "1", "a", "1", "-", "1">> }

Texts ==
    StringsOver(TextAlphabet, 0, MaxTextLen) \cup StringsOver(StarredAlphabet, 1, MaxTextLen)
    \cup SelectiveSamples

\* a group of one multi-token pattern, 1-1 ; no selective pattern
MultiTokenPatternsFile ==
    [status |-> "ok",
     enabled |-> <<"datetime_patterns", "aws_selective_patterns">>,
     groups |-> [datetime_patterns |-> <<Pat(<<{"1"}, {"-"}, {"1"}>>)>>],
     custom_patterns |-> <<>>,
     aws_selective_patterns |-> <<>>,
     exact_match_patterns |-> <<>>,
     human_readable_datetime_patterns |-> <<>>]

\* the same, and the selective pattern 11 -> *
SelectivePatternsFile ==
    [status |-> "ok",
     enabled |-> <<"datetime_patterns", "aws_selective_patterns">>,
     groups |-> [datetime_patterns |-> <<Pat(<<{"1"}, {"-"}, {"1"}>>)>>],
     custom_patterns |-> <<>>,
     aws_selective_patterns |-> << <<Pat(<<{"1"}, {"1"}>>), <<"*">>>> >>,
     exact_match_patterns |-> <<>>,
     human_readable_datetime_patterns |-> <<>>]

RedactThresholdArgs == {<<>>, <<500000>>, <<1000000>>}

RedactMinLengthArgs == {<<>>, <<2>>}

WindowSizeArgs == {<<>>, <<2>>}

CondenseArgs == {<<>>, <<TRUE>>}

NextRedact ==
    \/ /\ pc = "idle"
       /\ \E patterns_file \in {MultiTokenPatternsFile, SelectivePatternsFile} :
            load_config(WordsFile, EntropyFile, patterns_file)
    \/ /\ pc = "idle"
       /\ \E text \in Texts, entropy_threshold \in RedactThresholdArgs,
             min_length \in RedactMinLengthArgs, condense_asterisks \in CondenseArgs :
               CallRedactTokens(text, entropy_threshold, min_length, condense_asterisks)
    \/ /\ pc = "idle"
       /\ \E text \in Texts, entropy_threshold \in RedactThresholdArgs :
               CallRedactSensitiveData(text, entropy_threshold, <<>>, <<>>)
    \/ /\ pc = "idle"
       /\ \E text \in Texts, entropy_threshold \in RedactThresholdArgs,
             min_length \in RedactMinLengthArgs, window_size \in WindowSizeArgs,
             condense_asterisks \in CondenseArgs :
               CallRedactSliding(text, entropy_threshold, min_length, window_size,
                                 condense_asterisks)
    \/ Return

SpecRedact == Init /\ [][NextRedact]_vars

---------------------------------------------------------------------------
(* Inputs: words of the lexicon and lines made of words.                   *)

MaxWords == 2

\* a multi-token pattern a-a ; no selective pattern
WordPatternsFile ==
    [status |-> "ok",
     enabled |-> <<"datetime_patterns">>,
     groups |-> [datetime_patterns |-> <<Pat(<<{"a"}, {"-"}, {"a"}>>)>>],
     custom_patterns |-> <<>>,
     aws_selective_patterns |-> <<>>,
     exact_match_patterns |-> <<>>,
     human_readable_datetime_patterns |-> <<>>]

\* data, DATA, Decade, facade, area: in the lexicon of WordsFile, in some
\* case; dat, x9y8z7: not in it.
WordForms ==
    { <<"d", "a", "t", "a">>, <<"D", "A", "T", "A">>, <<"D", "e", "c", "a", "d", "e">>,
      <<"f", "a", "c", "a", "d", "e">>, <<"a", "r", "e", "a">>, <<"d", "a", "t">>,
      <<"x", "9", "y", "8", "z", "7">> }

WordSeparators == {"-", " "}

RECURSIVE WordLines(_)
WordLines(n) ==
    IF n = 0 THEN {<<>>}
    ELSE IF n = 1 THEN WordForms
    ELSE {line \o <<sep>> \o word :
            line \in WordLines(n - 1), sep \in WordSeparators, word \in WordForms}

WordTexts == UNION {WordLines(n) : n \in 0..MaxWords}

WordThresholdArgs == {<<>>, <<0>>, <<9000000>>}

WordMinLengthArgs == {<<>>, <<1>>, <<7>>}

NextWords ==
    \/ /\ pc = "idle"
       /\ \E patterns_file \in {WordPatternsFile, MultiTokenPatternsFile} :
            load_config(WordsFile, EntropyFile, patterns_file)
    \/ /\ pc = "idle"
       /\ \E segment \in WordForms, entropy_threshold \in WordThresholdArgs,
             min_length \in WordMinLengthArgs :
               CallIsHighEntropy(segment, entropy_threshold, min_length)
    \/ /\ pc = "idle"
       /\ \E text \in WordTexts, entropy_threshold \in WordThresholdArgs,
             min_length \in WordMinLengthArgs, condense_asterisks \in CondenseArgs :
               CallRedactSensitiveData(text, entropy_threshold, min_length,
                                       condense_asterisks)
    \/ Return

SpecWords == Init /\ [][NextWords]_vars

---------------------------------------------------------------------------
(* Properties of the classifiers, checked under SpecSeg.                *)

IsCall(fn) == pc = "returned" /\ call.fn = fn

\* The min_length a call of is_high_entropy_segment works with.
EffectiveMinLength == OrDefault(call.min_length, "min_length", 4)

\* C7: under a loaded configuration, every segment of 8 or more decimal
\* digits, whatever its value, is an always-redact pattern, and
\* is_high_entropy_segment returns True for it at every threshold when
\* min_length <= its length.
C7_LongNumericIdFlagged ==
    /\ (IsCall("is_always_redact_pattern") /\ load_status = "loaded"
        /\ isdigit(call.text) /\ Len(call.text) >= 8)
        => result = TRUE
    /\ (IsCall("is_high_entropy_segment") /\ load_status = "loaded"
        /\ isdigit(call.text) /\ Len(call.text) >= 8
        /\ EffectiveMinLength <= Len(call.text))
        => result = TRUE

\* The ten rules of the pattern classifier, each on its own.
Rule1_Uuid(text) == re_match(uuid_pattern, text, FALSE)

Rule2_Hex(text) ==
    /\ Len(text) >= 4
    /\ hex_match(text)
    /\ ~ (isdigit(text) /\ hex_numeric_exempt(text))
    /\ hex_likely_random(text)

Rule3_LongNumeric(text) == Len(text) >= 8 /\ isdigit(text)

Rule4_ShortNumericId(text) == short_numeric_id(text)

Rule5_EpochSeconds(text) == Len(text) = 10 /\ epoch_timestamp(text)

Rule6_EpochMillis(text) == Len(text) = 13 /\ epoch_timestamp(text)

Rule7_ExactMatch(text) == exact_match(text)

Rule8_HumanDatetime(text) == human_readable_datetime(text)

Rule9_VowellessMixed(text) == vowelless_mixed(text)

Rule10_Base64(text) == base64_padded(text)

AnyRule(text) ==
    \/ Rule1_Uuid(text)
    \/ Rule2_Hex(text)
    \/ Rule3_LongNumeric(text)
    \/ Rule4_ShortNumericId(text)
    \/ Rule5_EpochSeconds(text)
    \/ Rule6_EpochMillis(text)
    \/ Rule7_ExactMatch(text)
    \/ Rule8_HumanDatetime(text)
    \/ Rule9_VowellessMixed(text)
    \/ Rule10_Base64(text)

\* C8: under a loaded configuration, is_always_redact_pattern returns True
\* exactly when at least one of the ten rules holds of the segment; no rule
\* keeps a later one from deciding.
C8_OrOfIndependentRules ==
    (IsCall("is_always_redact_pattern") /\ load_status = "loaded")
        => (result = AnyRule(call.text))

\* 8-4-4-4-12 hexadecimal digits, either case.
IsCanonicalUuid(text) ==
    /\ Len(text) = 36
    /\ \A i \in 1..36 :
        IF i \in {9, 14, 19, 24} THEN text[i] = "-" ELSE text[i] \in HexChars

\* C9: a canonical UUID is classified high-entropy at every threshold and
\* every min_length <= 36, under every configuration.
C9_UuidAlwaysHighEntropy ==
    (IsCall("is_high_entropy_segment") /\ IsCanonicalUuid(call.text)
     /\ EffectiveMinLength <= 36)
        => result = TRUE

\* A UUID with letters of both cases and vowels, flagged at threshold 9.0
\* with min_length 36 under a loaded configuration.
C9_Witness ==
    /\ IsCall("is_high_entropy_segment")
    /\ IsCanonicalUuid(call.text)
    /\ \E i \in 1..36 : call.text[i] = "e"
    /\ \E i \in 1..36 : call.text[i] = "F"
    /\ ~ any_digit(call.text)
    /\ call.entropy_threshold = <<9000000>>
    /\ call.min_length = <<36>>
    /\ load_status = "loaded"
    /\ result = TRUE

\* C10: a segment shorter than min_length is never flagged, whatever the
\* threshold and whatever else holds of it.
C10_ShortNeverFlagged ==
    (IsCall("is_high_entropy_segment") /\ Len(call.text) < EffectiveMinLength)
        => result = FALSE

\* A short segment that is an always-redact pattern, at threshold 0, kept.
C10_Witness ==
    /\ IsCall("is_high_entropy_segment")
    /\ Len(call.text) < EffectiveMinLength
    /\ is_always_redact_pattern(call.text)
    /\ call.entropy_threshold = <<0>>
    /\ result = FALSE

---------------------------------------------------------------------------
(* Properties of the redactors, checked under SpecRedact.               *)

IsRedactTokens == IsCall("redact_high_entropy_tokens")

IsRedactSensitive == IsCall("redact_sensitive_data")

IsRedactSliding == IsCall("redact_high_entropy_strings")

NoCondense == call.condense_asterisks \in {<<>>, <<FALSE>>}

\* Every character of the result is the input's at that index, or "*".
SameLengthMasked(text, out) ==
    /\ Len(out) = Len(text)
    /\ \A i \in 1..Len(text) : out[i] = text[i] \/ out[i] = STAR

\* The selective-hostname substitution changes nothing on the line.
SelectiveLeavesUnchanged(text) == aws_substitute(AWS_SELECTIVE_PATTERNS, text) = text

\* Index i (1-based) of the line lies inside a match of a multi-token pattern.
InMultiTokenMatch(text, i) ==
    LET spans == datetime_spans(REDACTION_PATTERNS, text) IN
    \E k \in 1..Len(spans) : spans[k][1] < i /\ i <= spans[k][2]

\* C1 as stated: with condense=false both redactors return a string of the
\* input's length whose characters are the input's or "*", under every
\* loaded configuration.
C1_SameLengthMasked_AnyConfig ==
    ((IsRedactTokens \/ IsRedactSliding) /\ NoCondense /\ load_status = "loaded")
        => SameLengthMasked(call.text, result)

\* C1 amended: with condense=false, redact_high_entropy_strings always, and
\* redact_high_entropy_tokens whenever the selective-hostname substitution
\* leaves the line unchanged, return a string of the input's length whose
\* characters are the input's or "*".
C1_SameLengthMasked ==
    /\ (IsRedactSliding /\ NoCondense) => SameLengthMasked(call.text, result)
    /\ (IsRedactTokens /\ NoCondense /\ SelectiveLeavesUnchanged(call.text))
        => SameLengthMasked(call.text, result)

\* A token call under a configuration with selective patterns, none of which
\* matches the line: a multi-token match is masked, another character kept.
C1_Witness ==
    /\ IsRedactTokens
    /\ NoCondense
    /\ Len(AWS_SELECTIVE_PATTERNS) > 0
    /\ SelectiveLeavesUnchanged(call.text)
    /\ \E i \in 1..Len(call.text) :
        InMultiTokenMatch(call.text, i) /\ call.text[i] # STAR /\ result[i] = STAR
    /\ \E i \in 1..Len(call.text) : result[i] = call.text[i]

\* C2 as stated: with condense=false every non-alphanumeric character of the
\* input is unchanged at its index in the output of both redactors, under
\* every loaded configuration.
C2_SeparatorsUnchanged_AnyConfig ==
    ((IsRedactTokens \/ IsRedactSliding) /\ NoCondense /\ load_status = "loaded")
        => \A i \in 1..Len(call.text) :
            call.text[i] \notin Alnum => (i <= Len(result) /\ result[i] = call.text[i])

\* C2 amended: with condense=false every non-alphanumeric character of the
\* input is unchanged at its index in the output of
\* redact_high_entropy_strings; in the output of redact_high_entropy_tokens,
\* provided the selective-hostname substitution leaves the line unchanged, it
\* is unchanged unless it lies inside a match of a multi-token pattern, where
\* it is "*".
C2_SeparatorsUnchanged ==
    /\ (IsRedactSliding /\ NoCondense)
        => \A i \in 1..Len(call.text) :
            call.text[i] \notin Alnum => (i <= Len(result) /\ result[i] = call.text[i])
    /\ (IsRedactTokens /\ NoCondense /\ SelectiveLeavesUnchanged(call.text))
        => \A i \in 1..Len(call.text) :
            call.text[i] \notin Alnum =>
                /\ i <= Len(result)
                /\ result[i] = IF InMultiTokenMatch(call.text, i) THEN STAR
                               ELSE call.text[i]

\* A token call whose line has a separator inside a multi-token match, now a
\* "*", and a separator outside it, kept, next to a flagged token.
C2_Witness ==
    /\ IsRedactTokens
    /\ NoCondense
    /\ SelectiveLeavesUnchanged(call.text)
    /\ \E i \in 1..Len(call.text) :
        /\ call.text[i] = "-"
        /\ InMultiTokenMatch(call.text, i)
        /\ result[i] = STAR
    /\ \E i \in 1..Len(call.text) :
        /\ call.text[i] = "-"
        /\ ~ InMultiTokenMatch(call.text, i)
        /\ result[i] = "-"

\* The maximal alphanumeric runs of a line, as 0-based spans <<start, end>>.
AlnumRuns(text) ==
    { span \in (0..Len(text)) \X (0..Len(text)) :
        /\ span[1] < span[2]
        /\ \A i \in (span[1] + 1)..span[2] : text[i] \in Alnum
        /\ span[1] = 0 \/ text[span[1]] \notin Alnum
        /\ span[2] = Len(text) \/ text[span[2] + 1] \notin Alnum }

\* The run appears in the output verbatim or as "*" repeated to its length.
WholeTokenDecision(text, out, span) ==
    /\ span[2] <= Len(out)
    /\ \/ Slice(out, span[1], span[2]) = Slice(text, span[1], span[2])
       \/ Slice(out, span[1], span[2]) = Stars(span[2] - span[1])

OverlapsMultiTokenMatch(text, span) ==
    \E i \in (span[1] + 1)..span[2] : InMultiTokenMatch(text, i)

\* C3 as stated: with condense=false, redact_high_entropy_tokens leaves each
\* maximal alphanumeric run of the input verbatim or replaces all of it,
\* under every loaded configuration.
C3_NoPartialToken_AnyConfig ==
    (IsRedactTokens /\ NoCondense /\ load_status = "loaded")
        => \A span \in AlnumRuns(call.text) : WholeTokenDecision(call.text, result, span)

\* C3 amended: with condense=false and the selective-hostname substitution
\* leaving the line unchanged, redact_high_entropy_tokens leaves each maximal
\* alphanumeric run of the input that no multi-token match overlaps verbatim
\* or replaces all of it; a run that a match overlaps can be partly masked.
C3_NoPartialToken ==
    (IsRedactTokens /\ NoCondense /\ SelectiveLeavesUnchanged(call.text))
        => \A span \in AlnumRuns(call.text) :
            ~ OverlapsMultiTokenMatch(call.text, span)
                => WholeTokenDecision(call.text, result, span)

\* Under a loaded configuration with multi-token patterns, a line with one
\* run of two or more characters replaced as a whole and another kept.
C3_Witness ==
    /\ IsRedactTokens
    /\ NoCondense
    /\ Len(REDACTION_PATTERNS) > 0
    /\ SelectiveLeavesUnchanged(call.text)
    /\ \E span \in AlnumRuns(call.text) :
        /\ span[2] - span[1] >= 2
        /\ ~ OverlapsMultiTokenMatch(call.text, span)
        /\ Slice(result, span[1], span[2]) = Stars(span[2] - span[1])
    /\ \E span \in AlnumRuns(call.text) :
        /\ ~ OverlapsMultiTokenMatch(call.text, span)
        /\ Slice(result, span[1], span[2]) = Slice(call.text, span[1], span[2])

StarCount(s) == Cardinality({i \in 1..Len(s) : s[i] = STAR})

\* The threshold a call works with, and the thresholds compared with it.
EffectiveThreshold == OrDefault(call.entropy_threshold, "default_threshold", 2500000)

LowerThresholds ==
    {t \in {0, 500000, 1000000} : t <= EffectiveThreshold}

TokensAt(t_low) ==
    redact_high_entropy_tokens(call.text, <<t_low>>, call.min_length,
                               call.condense_asterisks)

\* C4 as stated: for every input and condense setting, under a loaded
\* configuration, a lower threshold never gives redact_high_entropy_tokens
\* (redact_sensitive_data) fewer "*".
C4_TokenMonotone_AnyCondense ==
    ((IsRedactTokens \/ IsRedactSensitive) /\ load_status = "loaded")
        => \A t_low \in LowerThresholds : StarCount(TokensAt(t_low)) >= StarCount(result)

\* C4 amended: a lower threshold never gives redact_high_entropy_tokens
\* (redact_sensitive_data) fewer "*" when condense=false, for every input,
\* and when condense=true provided the line after the pattern pre-pass holds
\* no "*".
C4_TokenMonotone ==
    ((IsRedactTokens \/ IsRedactSensitive)
     /\ (NoCondense \/ \A i \in 1..Len(pattern_prepass(call.text)) :
                            pattern_prepass(call.text)[i] # STAR))
        => \A t_low \in LowerThresholds : StarCount(TokensAt(t_low)) >= StarCount(result)

\* An input that holds a "*", with condense=false, for which a lower
\* threshold gives strictly more "*".
C4_Witness ==
    /\ IsRedactTokens
    /\ NoCondense
    /\ \E i \in 1..Len(call.text) : call.text[i] = STAR
    /\ \E t_low \in LowerThresholds : StarCount(TokensAt(t_low)) > StarCount(result)

SlidingAt(t_low) ==
    redact_high_entropy_strings(call.text, <<t_low>>, call.min_length,
                                call.window_size, call.condense_asterisks)

\* C5: with condense=false, under a loaded configuration, a lower threshold
\* never gives redact_high_entropy_strings fewer "*".
C5_SlidingMonotone ==
    (IsRedactSliding /\ NoCondense /\ load_status = "loaded")
        => \A t_low \in LowerThresholds : StarCount(SlidingAt(t_low)) >= StarCount(result)

---------------------------------------------------------------------------
(* Properties of common words, checked under SpecWords.                 *)

\* Every maximal alphanumeric run of the line is a word of the lexicon.
LexiconLine(text) ==
    \A span \in AlnumRuns(text) : is_common_word(Slice(text, span[1], span[2]))

\* C6 as stated: under a loaded configuration, is_high_entropy_segment
\* returns False for every word of the lexicon, compared case-insensitively,
\* at every threshold and min_length, and redact_sensitive_data leaves a line
\* made of lexicon words and separators unchanged.
C6_CommonWordsKept_AnyWord ==
    /\ (IsCall("is_high_entropy_segment") /\ load_status = "loaded"
        /\ is_common_word(call.text))
        => result = FALSE
    /\ (IsRedactSensitive /\ load_status = "loaded" /\ NoCondense
        /\ LexiconLine(call.text))
        => result = call.text

\* The word is kept by the classifier: it is in the lexicon and is no
\* always-redact pattern, or it is shorter than min_length.
KeptWord(word) ==
    \/ Len(word) < EffectiveMinLength
    \/ is_common_word(word) /\ ~ is_always_redact_pattern(word)

\* C6 amended: is_high_entropy_segment returns False, at every threshold and
\* min_length, for every lexicon word (compared case-insensitively) that is
\* not an always-redact pattern; and redact_sensitive_data, with
\* condense=false, leaves unchanged a line made of such words and separators
\* that the pattern pre-pass leaves unchanged.
C6_CommonWordsKept ==
    /\ (IsCall("is_high_entropy_segment") /\ is_common_word(call.text)
        /\ ~ is_always_redact_pattern(call.text))
        => result = FALSE
    /\ (IsRedactSensitive /\ NoCondense /\ pattern_prepass(call.text) = call.text
        /\ \A span \in AlnumRuns(call.text) :
            KeptWord(Slice(call.text, span[1], span[2])))
        => result = call.text

\* A lexicon word written in upper case, at threshold 0 with min_length 1
\* under a loaded configuration: kept.
C6_Witness ==
    /\ IsCall("is_high_entropy_segment")
    /\ load_status = "loaded"
    /\ is_common_word(call.text)
    /\ call.text # lower(call.text)
    /\ ~ is_always_redact_pattern(call.text)
    /\ call.entropy_threshold = <<0>>
    /\ call.min_length = <<1>>
    /\ result = FALSE

---------------------------------------------------------------------------
(* Years, checked under SpecSeg.                                           *)

IsYear(text) ==
    /\ Len(text) = 4
    /\ isdigit(text)
    /\ InRange(<<"1", "9", "0", "0">>, int(text), <<"2", "1", "0", "0">>)

\* C11: for every 4-digit decimal string with a value in [1900, 2100],
\* is_always_redact_pattern returns False, whatever patterns are loaded.
C11_YearsNotAlwaysRedact ==
    (IsCall("is_always_redact_pattern") /\ IsYear(call.text)) => result = FALSE

\* A year that a loaded exact-match pattern matches, not an always-redact
\* pattern all the same.
C11_Witness ==
    /\ IsCall("is_always_redact_pattern")
    /\ IsYear(call.text)
    /\ load_status = "loaded"
    /\ exact_match(call.text)
    /\ result = FALSE

---------------------------------------------------------------------------
(* Condensing, checked under SpecRedact.                                   *)

Condense == call.condense_asterisks = <<TRUE>>

AdjacentStars(s) == \E i \in 1..(Len(s) - 1) : s[i] = STAR /\ s[i + 1] = STAR

\* The min_length a redactor call works with.
RedactMinLength == OrDefault(call.min_length, "min_length", 4)

\* C12 as stated: with condense=true the result of both redactors holds no
\* two adjacent "*", for every input text of any length.
C12_NoAdjacentStars_AnyLength ==
    ((IsRedactTokens \/ IsRedactSliding) /\ Condense) => ~ AdjacentStars(result)

\* C12 amended: with condense=true the result of redact_high_entropy_tokens
\* holds no two adjacent "*" for every input text, and the result of
\* redact_high_entropy_strings holds none for every input text at least
\* min_length long; a text shorter than min_length is returned by
\* redact_high_entropy_strings as it is, adjacent "*" included.
C12_NoAdjacentStars ==
    /\ (IsRedactTokens /\ Condense) => ~ AdjacentStars(result)
    /\ (IsRedactSliding /\ Condense /\ Len(call.text) >= RedactMinLength)
        => ~ AdjacentStars(result)
    /\ (IsRedactSliding /\ Len(call.text) < RedactMinLength) => result = call.text

\* A sliding call with condense=true on a text at least min_length long that
\* holds a run of three "*": one "*" in the result.
C12_Witness ==
    /\ IsRedactSliding
    /\ Condense
    /\ Len(call.text) >= RedactMinLength
    /\ \E i \in 1..(Len(call.text) - 2) :
        call.text[i] = STAR /\ call.text[i + 1] = STAR /\ call.text[i + 2] = STAR
    /\ StarCount(result) = 1

---------------------------------------------------------------------------
(* Inputs: calls that break the numeric preconditions, made by one thread. *)

MaxPreLen == 3

PreTexts == StringsOver({"a", "1", "-"}, 0, MaxPreLen)

PreThresholdArgs == {<<>>, <<500000>>}

PreMinLengthArgs == {<<>>, <<-1>>, <<0>>, <<1>>}

PreWindowSizeArgs == {<<>>, <<-1>>, <<0>>, <<2>>}

NextPre ==
    \/ LoadWhenQuiet(WordsFile, EntropyFile, SegPatternsFile)
    \/ /\ frames[1].pc = "idle"
       /\ \E segment \in PreTexts, entropy_threshold \in PreThresholdArgs,
             min_length \in PreMinLengthArgs :
               RunIsHighEntropy(1, segment, entropy_threshold, min_length)
    \/ /\ frames[1].pc = "idle"
       /\ \E text \in PreTexts, entropy_threshold \in PreThresholdArgs,
             min_length \in PreMinLengthArgs :
               RunRedactTokens(1, text, entropy_threshold, min_length, <<>>)
    \/ /\ frames[1].pc = "idle"
       /\ \E text \in PreTexts, entropy_threshold \in PreThresholdArgs,
             min_length \in PreMinLengthArgs, window_size \in PreWindowSizeArgs :
               BeginRedactSliding(1, text, entropy_threshold, min_length, window_size, <<>>)
    \/ NextToken(1)
    \/ ScanIteration(1)
    \/ Resume(1)

SpecPre == Init /\ [][NextPre]_vars

---------------------------------------------------------------------------
(* Numeric preconditions, checked under SpecPre.                           *)

\* The call of the frame was made with min_length < 1 or window_size < 1.
PreconditionViolated(f) ==
    \/ /\ f.call.fn \in {"is_high_entropy_segment", "redact_high_entropy_tokens",
                          "redact_high_entropy_strings"}
       /\ OrDefault(f.call.min_length, "min_length", 4) < 1
    \/ /\ f.call.fn = "redact_high_entropy_strings"
       /\ OrDefault(f.call.window_size, "window_size", 6) < 1

\* C13: a call of is_high_entropy_segment, redact_high_entropy_tokens or
\* redact_high_entropy_strings made with min_length < 1 or window_size < 1
\* never returns a result.
C13_PreconditionFailure ==
    \A t \in Workers : PreconditionViolated(frames[t]) => frames[t].pc # "returned"

---------------------------------------------------------------------------
(* Inputs: two threads calling into one configuration.                     *)

\* "", a1, bbae, 1-1a, a-bae
ThreadTexts ==
    { <<>>, <<"a", "1">>, <<"b", "b", "a", "e">>, <<"1", "-", "1", "a">>,
      <<"a", "-", "b", "a", "e">> }

ThreadThresholdArgs == {<<>>, <<500000>>}

ThreadMinLengthArgs == {<<>>, <<2>>}

NextThreads ==
    \/ LoadWhenQuiet(WordsFile, EntropyFile, MultiTokenPatternsFile)
    \/ \E t \in Workers, text \in ThreadTexts : RunCalculateEntropy(t, text)
    \/ \E t \in Workers, segment \in ThreadTexts,
          entropy_threshold \in ThreadThresholdArgs :
            RunIsHighEntropy(t, segment, entropy_threshold, <<>>)
    \/ \E t \in Workers, text \in ThreadTexts,
          entropy_threshold \in ThreadThresholdArgs :
            RunRedactTokens(t, text, entropy_threshold, <<>>, <<>>)
    \/ \E t \in Workers, text \in ThreadTexts,
          entropy_threshold \in ThreadThresholdArgs :
            RunRedactSensitiveData(t, text, entropy_threshold, <<>>, <<>>)
    \/ \E t \in Workers, text \in ThreadTexts,
          entropy_threshold \in ThreadThresholdArgs,
          min_length \in ThreadMinLengthArgs :
            BeginRedactSliding(t, text, entropy_threshold, min_length, <<>>, <<>>)
    \/ \E t \in Workers : NextToken(t)
    \/ \E t \in Workers : ScanIteration(t)
    \/ \E t \in Workers : Resume(t)

SpecThreads == Init /\ [][NextThreads]_vars

---------------------------------------------------------------------------
(* The configuration during calls, checked under SpecThreads.              *)

\* What the call of a frame returns when it runs alone, start to end.
RunAlone(f) ==
    CASE f.call.fn = "calculate_entropy" ->
            f.entropy = calculate_entropy(f.call.text)
      [] f.call.fn = "is_high_entropy_segment" ->
            f.flag = is_high_entropy_segment(f.call.text, f.call.entropy_threshold,
                                             f.call.min_length)
      [] f.call.fn = "redact_high_entropy_tokens" ->
            f.result = redact_high_entropy_tokens(f.call.text, f.call.entropy_threshold,
                            f.call.min_length, f.call.condense_asterisks)
      [] f.call.fn = "redact_sensitive_data" ->
            f.result = redact_sensitive_data(f.call.text, f.call.entropy_threshold,
                            f.call.min_length, f.call.condense_asterisks)
      [] f.call.fn = "redact_high_entropy_strings" ->
            f.result = redact_high_entropy_strings(f.call.text, f.call.entropy_threshold,
                            f.call.min_length, f.call.window_size,
                            f.call.condense_asterisks)

\* C14: no step of a call of calculate_entropy, is_high_entropy_segment,
\* redact_high_entropy_tokens, redact_high_entropy_strings or
\* redact_sensitive_data changes a configuration value, and a call that runs
\* interleaved with the calls of another thread returns what it returns
\* when it runs alone.
C14_ConfigReadOnly ==
    /\ [][frames' # frames => UNCHANGED config_vars]_vars
    /\ [](\A t \in Workers : frames[t].pc = "returned" => RunAlone(frames[t]))

\* Under a loaded configuration, one thread in the middle of a scan with a
\* region marked while the other has a redacted result of another function.
C14_Witness ==
    /\ load_status = "loaded"
    /\ \E t \in Workers, u \in Workers :
        /\ frames[t].pc = "scan"
        /\ \E j \in 1..Len(frames[t].redacted_chars) : frames[t].redacted_chars[j] = STAR
        /\ frames[u].pc = "returned"
        /\ frames[u].call.fn = "redact_sensitive_data"
        /\ frames[u].result # frames[u].call.text

---------------------------------------------------------------------------
(* Inputs: texts for calculate_entropy.                                    *)

MaxEntropyLen == 4

\* aabbccdd, AaBbCcDd, abcdefgh, aabbccddeeffgghh
EntropySamples ==
    { <<"a", "a", "b", "b", "c", "c", "d", "d">>,
      <<"A", "a", "B", "b", "C", "c", "D", "d">>,
      <<"a", "b", "c", "d", "e", "f", "g", "h">>,
      <<"a", "a", "b", "b", "c", "c", "d", "d", "e", "e", "f", "f", "g", "g", "h", "h">> }

EntropyTexts ==
    StringsOver({"a", "A", "b", "B"}, 0, MaxEntropyLen)
    \cup StringsOver({"a", "b", "i", CAPITAL_I_WITH_DOT, COMBINING_DOT}, 1, MaxEntropyLen - 1)
    \cup EntropySamples

NextEntropy ==
    \/ /\ pc = "idle"
       /\ \E text \in EntropyTexts : CallCalculateEntropy(text)
    \/ Return

SpecEntropy == Init /\ [][NextEntropy]_vars

---------------------------------------------------------------------------
(* The values of calculate_entropy, checked under SpecEntropy.             *)

\* All the characters of the text are one letter, in either case.
OneLetterIgnoringCase(text) ==
    \A i \in 1..Len(text), j \in 1..Len(text) : lower(<<text[i]>>) = lower(<<text[j]>>)

\* The characters of the text, each as often as every other.
EquallyOften(text) ==
    \A i \in 1..Len(text), j \in 1..Len(text) :
        Cardinality({k \in 1..Len(text) : text[k] = text[i]})
            = Cardinality({k \in 1..Len(text) : text[k] = text[j]})

DistinctChars(text) == Cardinality({text[i] : i \in 1..Len(text)})

\* C15: calculate_entropy is 0 for the empty string and for a string of one
\* letter in either case; two strings with the same lower-cased text have
\* the same entropy; and when the lower-cased text has 2^k distinct
\* characters, each as often as every other, the entropy is exactly k.
C15_EntropyValues ==
    IsCall("calculate_entropy") =>
        /\ OneLetterIgnoringCase(call.text) => result = 0
        /\ \A other \in EntropyTexts :
            lower(other) = lower(call.text) => calculate_entropy(other) = result
        /\ (EquallyOften(lower(call.text))
            /\ DistinctChars(lower(call.text)) \in {1, 2, 4, 8, 16})
            => result = Log2Micro[DistinctChars(lower(call.text))]

---------------------------------------------------------------------------
(* Inputs: configuration files that are missing, unparsable or incomplete. *)

UnparsableWordsFile ==
    [status |-> "unparsable", common_words |-> {}, prefixes |-> {}, suffixes |-> {}]

MissingEntropyFile == [status |-> "missing", entropy_detection |-> EmptyDict]

UnparsableEntropyFile == [status |-> "unparsable", entropy_detection |-> EmptyDict]

\* entropy_detection without window_size
MissingKeyEntropyFile ==
    [status |-> "ok",
     entropy_detection |->
        [default_threshold |-> 3000000, word_pattern_bonus |-> 500000, min_length |-> 3]]

MissingPatternsFile == [SegPatternsFile EXCEPT !.status = "missing"]

UnparsablePatternsFile == [SegPatternsFile EXCEPT !.status = "unparsable"]

LoadWordsFiles == {WordsFile, MissingWordsFile, UnparsableWordsFile}

LoadEntropyFiles ==
    {EntropyFile, NoSectionEntropyFile, MissingKeyEntropyFile, MissingEntropyFile,
     UnparsableEntropyFile}

LoadPatternsFiles ==
    {SegPatternsFile, MultiTokenPatternsFile, MissingPatternsFile, UnparsablePatternsFile}

LoadSegments == YearSegments \cup SampleSegments

NextLoad ==
    \/ /\ pc = "idle"
       /\ \E words_file \in LoadWordsFiles, entropy_file \in LoadEntropyFiles,
             patterns_file \in LoadPatternsFiles :
               load_config(words_file, entropy_file, patterns_file)
    \/ /\ pc = "idle"
       /\ \E text \in LoadSegments : CallIsAlwaysRedact(text)
    \/ Return

SpecLoad == Init /\ [][NextLoad]_vars

---------------------------------------------------------------------------
(* How load_config fails, checked under SpecLoad.                          *)

\* C16: a call of load_config that finds a required file missing ends in
\* FileNotFoundError, one that cannot parse a file ends in yaml.YAMLError, and
\* a call ends in SystemExit only when the 'entropy_detection' section or one
\* of its required keys is missing.
C16_LoadFailures ==
    /\ stdout = FileNotFoundMessage => load_status = "FileNotFoundError"
    /\ stdout = ParseFailureMessage => load_status = "YAMLError"
    /\ load_status = "SystemExit" =>
           stdout \in {MissingSectionMessage, MissingSettingMessage}

---------------------------------------------------------------------------
(* Multi-token matches on a line that the selective substitution changes,  *)
(* checked under SpecRedact.                                               *)

\* Where the character at 0-based offset i of text stands after
\* re.sub(p, repl, text): -1 when the substitution replaced it.
PositionAfterSub(p, repl, text, i) ==
    LET spans == finditer(p, text, 0, TRUE)
        before == {k \in 1..Len(spans) : spans[k][2] <= i}
    IN  IF i < 0 \/ \E k \in 1..Len(spans) : spans[k][1] <= i /\ i < spans[k][2]
        THEN -1
        ELSE i - Cardinality(before) * (Len(p.cls) - Len(repl))

\* The same after all the selective substitutions, one after the other.
RECURSIVE PositionAfterSelective(_, _, _)
PositionAfterSelective(patterns, text, i) ==
    IF Len(patterns) = 0 \/ i < 0 THEN i
    ELSE PositionAfterSelective(Tail(patterns),
                                re_sub(Head(patterns)[1], Head(patterns)[2], text, 0, TRUE),
                                PositionAfterSub(Head(patterns)[1], Head(patterns)[2], text, i))

\* C17: under every loaded configuration and with condense=false, every
\* character of the line that lies inside a match of a multi-token pattern is
\* "*" in the output of redact_high_entropy_tokens, at the place where the
\* selective substitutions left it, also when they changed the length of the
\* line.  (A character that a selective substitution itself replaced has no
\* place in the output and is not constrained.)
C17_MatchesFullyMasked ==
    (IsRedactTokens /\ NoCondense /\ load_status = "loaded")
        => \A i \in 1..Len(call.text) :
            InMultiTokenMatch(call.text, i) =>
                LET place == PositionAfterSelective(AWS_SELECTIVE_PATTERNS, call.text, i - 1)
                IN  place >= 0 => (place < Len(result) /\ result[place + 1] = STAR)

---------------------------------------------------------------------------
(* Inputs: one thread scanning lines with valid parameters.                *)

MaxScanLen == 3

\* bbae, ab-b, aaab-ab
ScanSamples ==
    { <<"b", "b", "a", "e">>, <<"a", "b", "-", "b">>,
      <<"a", "a", "a", "b", "-", "a", "b">> }

ScanTexts == StringsOver({"a", "b", "-"}, 0, MaxScanLen) \cup ScanSamples

ScanThresholdArgs == {<<>>, <<500000>>}

ScanMinLengthArgs == {<<>>, <<1>>, <<2>>}

ScanWindowSizeArgs == {<<>>, <<1>>, <<2>>, <<3>>}

NextScan ==
    \/ LoadWhenQuiet(WordsFile, EntropyFile, MultiTokenPatternsFile)
    \/ /\ frames[1].pc = "idle"
       /\ \E text \in ScanTexts, entropy_threshold \in ScanThresholdArgs,
             min_length \in ScanMinLengthArgs, window_size \in ScanWindowSizeArgs :
               BeginRedactSliding(1, text, entropy_threshold, min_length, window_size, <<>>)
    \/ NextToken(1)
    \/ ScanIteration(1)
    \/ Resume(1)

SpecScan == Init /\ [][NextScan]_vars

---------------------------------------------------------------------------
(* The regions the scan marks, checked under SpecScan.                     *)

\* The scan of the frame stands at a window that is classified high-entropy.
AtTrigger(f) ==
    /\ f.pc = "scan"
    /\ f.i <= Len(f.token) - f.window_size
    /\ is_high_entropy_segment(Slice(f.token, f.i, f.i + f.window_size),
                               f.entropy_threshold, f.min_length)

\* The frame g follows f by marking a region that has at least window_size
\* characters, holds the window at f.i, is classified high-entropy as a whole
\* and ends where the scan goes on.
MarksRegion(f, g) ==
    /\ g.end - g.start >= f.window_size
    /\ 0 <= g.start /\ g.start <= f.i
    /\ f.i + f.window_size <= g.end /\ g.end <= Len(f.token)
    /\ is_high_entropy_segment(Slice(f.token, g.start, g.end),
                               f.entropy_threshold, f.min_length)
    /\ g.redacted_chars =
        [j \in 1..Len(f.token) |->
            IF g.start < j /\ j <= g.end THEN STAR ELSE f.redacted_chars[j]]
    /\ g.i = g.end
    /\ g.token = f.token

\* C18: every iteration of the scan loop of redact_high_entropy_strings that
\* finds its window high-entropy marks a region [start, end) of the token
\* that has at least window_size characters, contains the window, whose
\* substring token[start:end] is classified high-entropy with the call's
\* threshold and min_length, and sets the scan index to end; an iteration
\* whose window is not high-entropy marks nothing.
C18_MarkedRegions ==
    [][\A t \in Workers :
        (frames[t].pc = "scan" /\ frames'[t] # frames[t]) =>
            IF AtTrigger(frames[t])
            THEN frames'[t].pc = "scan" /\ MarksRegion(frames[t], frames'[t])
            ELSE frames'[t].redacted_chars = frames[t].redacted_chars]_vars

\* A region just marked that is longer than the window, in a token of which
\* a character is kept.
C18_Witness ==
    LET f == frames[1] IN
    /\ f.pc = "scan"
    /\ f.i = f.end
    /\ f.end - f.start > f.window_size
    /\ f.start < f.end - f.window_size
    /\ \E j \in 1..Len(f.token) : f.redacted_chars[j] # STAR
    /\ \A j \in (f.start + 1)..f.end : f.redacted_chars[j] = STAR

---------------------------------------------------------------------------
(* Termination of the scan, checked under SpecScanFair: a thread inside    *)
(* redact_high_entropy_strings keeps running its loops.                    *)

SpecScanFair ==
    /\ Init
    /\ [][NextScan]_vars
    /\ WF_vars(NextToken(1))
    /\ WF_vars(ScanIteration(1))

\* From frame f one iteration of the scan loop leads to frame g: the index
\* grows, by 1 when the window is not flagged and to end when it is, and the
\* region stays within the token.
IndexAdvances(f, g) ==
    /\ g.i > f.i
    /\ IF AtTrigger(f)
       THEN g.i = g.end /\ 0 <= g.start /\ g.start <= f.i /\ g.end <= Len(f.token)
       ELSE g.i = f.i + 1

\* C19: for min_length >= 1 and window_size >= 1, every iteration of the scan
\* loop of redact_high_entropy_strings strictly increases the scan index (by
\* 1 when the window is not flagged, to end > index when it is, with the
\* region inside the token), no call raises, and every call that has begun
\* eventually returns.
C19_ScanTerminates ==
    /\ [][(frames[1].pc = "scan" /\ frames'[1].pc = "scan" /\ frames'[1] # frames[1])
            => IndexAdvances(frames[1], frames'[1])]_vars
    /\ [](frames[1].pc # "raised")
    /\ (frames[1].pc \in {"tokens", "scan"}) ~> (frames[1].pc = "returned")

\* A call that returned after scanning a second token, with a region marked
\* and a character kept.
C19_Witness ==
    LET f == frames[1] IN
    /\ f.pc = "returned"
    /\ Len(f.tokens) >= 3
    /\ f.i > 0
    /\ \E j \in 1..Len(f.result) : f.result[j] = STAR
    /\ \E j \in 1..Len(f.result) : f.result[j] \in Alnum

---------------------------------------------------------------------------
(* What the sliding scan leaves unchanged, checked under SpecScan.         *)

\* The frame holds a call of redact_high_entropy_strings that has returned.
SlidingReturned(f) ==
    f.pc = "returned" /\ f.call.fn = "redact_high_entropy_strings"

\* The alphanumeric run of the call's line comes out changed.
RunChanged(f, span) ==
    Slice(f.result, span[1], span[2]) # Slice(f.call.text, span[1], span[2])

\* C20: with condense=false, redact_high_entropy_strings changes an
\* alphanumeric token only if its length is at least min_length and at least
\* window_size and window_size >= min_length: a text shorter than min_length
\* is returned unchanged, a token shorter than min_length or than window_size
\* passes through unchanged, and with window_size < min_length the output
\* equals the input.
C20_ChangesOnlyLongTokens ==
    LET f == frames[1]
        min_length == f.min_length[1]
    IN  (SlidingReturned(f) /\ ~ f.condense_asterisks) =>
            /\ Len(f.result) = Len(f.call.text)
            /\ Len(f.call.text) < min_length => f.result = f.call.text
            /\ f.window_size < min_length => f.result = f.call.text
            /\ \A span \in AlnumRuns(f.call.text) :
                RunChanged(f, span) =>
                    /\ span[2] - span[1] >= min_length
                    /\ span[2] - span[1] >= f.window_size
                    /\ f.window_size >= min_length

\* A call with window_size >= min_length that changed one token of its line
\* and passed on another, long enough for min_length but shorter than the
\* window.
C20_Witness ==
    LET f == frames[1] IN
    /\ SlidingReturned(f)
    /\ f.window_size >= f.min_length[1]
    /\ \E span \in AlnumRuns(f.call.text) : RunChanged(f, span)
    /\ \E span \in AlnumRuns(f.call.text) :
        /\ span[2] - span[1] >= f.min_length[1]
        /\ span[2] - span[1] < f.window_size
        /\ ~ RunChanged(f, span)

---------------------------------------------------------------------------
(* Inputs: lines redacted twice, under configurations with and without     *)
(* multi-token and selective patterns.                                     *)

MaxIdemLen == 3

\* ab1-a**b, ****-ab, a1b2-**
IdemSamples ==
    { <<"a", "b", "1", "-", "a", "*", "*", "b">>,
      <<"*", "*", "*", "*", "-", "a", "b">>,
      <<"a", "1", "b", "2", "-", "*", "*">> }

IdemTexts == StringsOver({"a", "b", "1", "-", "*"}, 0, MaxIdemLen) \cup IdemSamples

IdemThresholdArgs == {<<>>, <<0>>, <<1000000>>}

IdemMinLengthArgs == {<<>>, <<1>>, <<2>>}

NextIdem ==
    \/ /\ pc = "idle"
       /\ \E patterns_file \in {SegPatternsFile, SelectivePatternsFile} :
            load_config(WordsFile, EntropyFile, patterns_file)
    \/ /\ pc = "idle"
       /\ \E text \in IdemTexts, entropy_threshold \in IdemThresholdArgs,
             min_length \in IdemMinLengthArgs, condense_asterisks \in CondenseArgs :
               CallRedactTokens(text, entropy_threshold, min_length, condense_asterisks)
    \/ CallRedactTokensAgain
    \/ Return
    \/ ReturnAgain

SpecIdem == Init /\ [][NextIdem]_vars

---------------------------------------------------------------------------
(* The second pass of redact_high_entropy_tokens, checked under SpecIdem.  *)

NoLinePatterns == REDACTION_PATTERNS = <<>> /\ AWS_SELECTIVE_PATTERNS = <<>>

\* C21: with no multi-token and no selective patterns configured,
\* redact_high_entropy_tokens applied to its own result, with the same
\* threshold, min_length and condense setting, returns that result again:
\* the second result equals the result of the first call on the line.
C21_TokensIdempotent ==
    (pc = "returned_again" /\ NoLinePatterns)
        => result = redact_high_entropy_tokens(call.text, call.entropy_threshold,
                                               call.min_length, call.condense_asterisks)

\* A second pass, under a loaded configuration without line patterns, over a
\* result in which the first pass masked a token, condensed a run of "*" and
\* kept a token.
C21_Witness ==
    /\ pc = "returned_again"
    /\ load_status = "loaded"
    /\ NoLinePatterns
    /\ call.condense_asterisks = <<TRUE>>
    /\ Len(result) < Len(call.text)
    /\ \E span \in AlnumRuns(call.text) :
        is_high_entropy_segment(Slice(call.text, span[1], span[2]),
                                call.entropy_threshold, call.min_length)
    /\ \E j \in 1..Len(result) : result[j] \in Alnum

---------------------------------------------------------------------------
(* What a failed load_config leaves behind, checked under SpecLoad.        *)

\* The step is a call of load_config that ended in exit(1).
FailedLoad == pc = "idle" /\ pc' = "idle" /\ load_status' = "SystemExit"

\* C22: a call of load_config that fails, at whatever point, leaves every
\* configuration global with the value it had before the call.
C22_AllOrNothing == [][FailedLoad => UNCHANGED config_vars]_vars

====
